---- MODULE Spec2Model ----
(***************************************************************************)
(* Wallet-signature authentication of Blockchain-Secure-Docs:              *)
(*   server/src/models/User.js      the User collection and its methods    *)
(*   server/src/routes/auth.js      POST /api/auth/nonce, /api/auth/verify *)
(*                                  and the requireAuth middleware         *)
(* and its on-chain registry:                                              *)
(*   blockchain/contracts/DocumentRegistry.sol                             *)
(*                                                                         *)
(* Every handler is an async function; it is cut at the points where it    *)
(* awaits the database (findOne, create, save), so that requests interleave*)
(* exactly where Node lets them interleave.  What a handler answers is a   *)
(* function of its request and of the documents it read: the operators     *)
(* requireAuth, verify and nonce below.                                    *)
(*                                                                         *)
(* Abstractions.  An address is its hex body cut to two characters over    *)
(* the letters a, b (and the non-hex letter g); the EIP-55 checksum keeps  *)
(* its shape (it decides the case of every letter from a digest of the     *)
(* lower-case body) with a small digest in place of keccak256.  A nonce is *)
(* the ordinal of the generateNonce() call that drew it: 32 random bytes   *)
(* are taken never to repeat.  A signature is the triple (signing key,     *)
(* signed message, encoding): recovery over the signed message yields the  *)
(* key's address, recovery over any other message yields an address nobody *)
(* owns, and the same signature has more than one string encoding.         *)
(***************************************************************************)
EXTENDS Integers, Sequences, FiniteSets, Bags, TLC

VARIABLES
    users,      \* the User collection, in insertion order (a document's _id is its position)
    pending,    \* bag of the database operations of the handlers in flight: reads answered
                \* whose handler has not continued, writes issued and not yet applied,
                \* writes applied whose handler has not answered yet
    nonceCount, \* number of generateNonce() calls made so far
    clock,      \* the server's clock: the last reading taken of new Date(), in milliseconds
    issued,     \* per address, the challenge POST /nonce returned last
    logins,     \* per address, the signatures of the successful verifications, in save order
    held,       \* per address, the nonces its document has stored so far
    _docs,      \* DocumentRegistry: documentHash => DocumentMetadata
    _versions,  \* DocumentRegistry: documentHash => CID history
    _access,    \* DocumentRegistry: documentHash => user => granted?
    blocks,     \* number of blocks sealed since the contract was deployed
    transactions, \* number of transactions committed since then
    lastAccessCall, \* per document and user, the last committed grantAccess / revokeAccess
    documents,  \* the Document collection, in insertion order (a document's _id is its position)
    inflight,   \* bag of the index's operations awaited or issued and not yet done: saves, calls of the contract, audit inserts
    audits      \* the Audit collection, in insertion order

vars ==
    <<users, pending, nonceCount, clock, issued, logins, held,
      _docs, _versions, _access, blocks, transactions, lastAccessCall,
      documents, inflight, audits>>

\* The variables of the authentication server.
serverVars == <<users, pending, nonceCount, clock, issued, logins, held>>

\* The variables of the document index.
indexVars == <<documents, inflight, audits>>

-----------------------------------------------------------------------------
(* Bounds *)

MaxNonce == 3

MaxLoginNonce == 4

MaxInflight == 2

-----------------------------------------------------------------------------
(* Addresses: ethers.getAddress *)

ToLowerChar(c) == CASE c = "A" -> "a" [] c = "B" -> "b" [] OTHER -> c

ToUpperChar(c) == CASE c = "a" -> "A" [] c = "b" -> "B" [] OTHER -> c

toLowerCase(s) == [i \in DOMAIN s |-> ToLowerChar(s[i])]

IsHexChar(c) == c \in {"a", "b", "A", "B"}

\* Stand-in for the keccak256 digest of the lower-case body: whether the
\* nibble that decides the case of letter i is >= 8.
DigestHigh(lower, i) == (lower[1] = lower[2]) # (i = 2)

Checksum(lower) ==
    [i \in DOMAIN lower |-> IF DigestHigh(lower, i) THEN ToUpperChar(lower[i]) ELSE lower[i]]

IsMixedCase(s) ==
    /\ \E i \in DOMAIN s : s[i] \in {"A", "B"}
    /\ \E i \in DOMAIN s : s[i] \in {"a", "b"}

\* The thrown error of getAddress / verifyMessage.
Throws == <<>>

\* Faulty variant: the address is validated and used as spelled.
getAddressKeepingCase(raw) ==
    IF Len(raw) # 2 \/ \E i \in DOMAIN raw : ~IsHexChar(raw[i])
    THEN Throws
    ELSE IF IsMixedCase(raw) /\ Checksum(toLowerCase(raw)) # raw THEN Throws ELSE raw

getAddress(raw) ==
    IF Len(raw) # 2 \/ \E i \in DOMAIN raw : ~IsHexChar(raw[i])
    THEN Throws
    ELSE LET result == Checksum(toLowerCase(raw))
         IN  IF IsMixedCase(raw) /\ result # raw THEN Throws ELSE result

\* The two wallets of the model, in checksummed form, and an address whose
\* key nobody holds.
Wallets == {<<"a", "B">>, <<"b", "A">>}

Unowned == <<"B", "b">>

\* What a client may send as address: spellings of the wallets (lower case,
\* upper case, checksummed, wrongly checksummed), a non-hex string, nothing.
RawAddresses ==
    { <<"a", "b">>, <<"A", "B">>, <<"a", "B">>, <<"A", "b">>,
      <<"b", "a">>, <<"b", "A">>, <<"g", "g">>, <<>> }

\* getAddress over the addresses of the model, computed once.
Checksummed == [raw \in RawAddresses |-> getAddress(raw)]

-----------------------------------------------------------------------------
(* Challenges and signatures *)

buildChallenge(address, nonce) == [wallet |-> address, nonce |-> nonce]

NullSig == [kind |-> "null"]

NoSig == [kind |-> "none"]

BadSig == [kind |-> "bad"]

Forms == {1, 2}

Sign(key, message, form) ==
    [kind |-> "sig", key |-> key, msg |-> message, form |-> form]

verifyMessage(message, signature) ==
    IF signature.kind # "sig" THEN Throws
    ELSE IF signature.msg = message THEN signature.key ELSE Unowned

\* The signatures a client can send: nothing, an unparseable string, or a
\* signature by either wallet over a challenge built from a nonce drawn so far.
Signatures ==
    {NoSig, BadSig} \cup
    { Sign(k, buildChallenge(a, n), f) :
        k \in Wallets, a \in Wallets, n \in 1..nonceCount, f \in Forms }

-----------------------------------------------------------------------------
(* models/User.js *)

\* Faulty variant: the generator repeats the value it drew last.
generateNonceRepeating == IF nonceCount = 0 THEN nonceCount + 1 ELSE nonceCount

generateNonce == nonceCount + 1

NewUser(address) ==
    [address |-> address, nonce |-> generateNonce,
     sessionSignature |-> NullSig, lastSeen |-> 0]

\* Model.findOne({ address }): the _id of the first document with that
\* address, 0 when there is none.
findOne(address) ==
    IF \E i \in DOMAIN users : users[i].address = address
    THEN CHOOSE i \in DOMAIN users :
            /\ users[i].address = address
            /\ \A j \in DOMAIN users : users[j].address = address => i <= j
    ELSE 0

\* Faulty variant: the collection has no unique index.
NoUniqueIndex(doc) == FALSE

\* The unique index on address.
DuplicateKey(doc) == \E i \in DOMAIN users : users[i].address = doc.address

\* new Date(): the readings the clock can give next, the millisecond of the
\* last reading again or a later one.
Now == {clock, clock + 1} \ {0}

\* The paths of a loaded document that assigning the values of after marks
\* as modified: those whose value differs from the one loaded (two Dates of
\* the same millisecond are the same value).
Modified(loaded, after) ==
    {path \in {"nonce", "lastSeen", "sessionSignature"} : after[path] # loaded[path]}

\* Faulty variant: rotateNonce leaves the nonce as loaded.
rotateNonceKeepingNonce(user, id, newSignature, now) ==
    LET after == [user EXCEPT !.lastSeen = now, !.sessionSignature = newSignature]
    IN  [op |-> "save", id |-> id, nonce |-> after.nonce, lastSeen |-> after.lastSeen,
         sessionSignature |-> after.sessionSignature, modified |-> Modified(user, after)]

\* Faulty variant: rotating a document that holds a session clears it.
rotateNonceClearingSession(user, id, newSignature, now) ==
    LET after == [user EXCEPT !.nonce = generateNonce, !.lastSeen = now,
                              !.sessionSignature =
                                  IF user.sessionSignature = NullSig
                                  THEN newSignature ELSE NullSig]
    IN  [op |-> "save", id |-> id, nonce |-> after.nonce, lastSeen |-> after.lastSeen,
         sessionSignature |-> after.sessionSignature, modified |-> Modified(user, after)]

\* rotateNonce up to its await, on the document user the handler loaded
\* (_id id): the fields it assigns, now being the reading new Date() gives,
\* and the save it issues, which carries the modified paths only.
rotateNonce(user, id, newSignature, now) ==
    LET after == [user EXCEPT !.nonce = generateNonce, !.lastSeen = now,
                              !.sessionSignature = newSignature]
    IN  [op |-> "save", id |-> id, nonce |-> after.nonce, lastSeen |-> after.lastSeen,
         sessionSignature |-> after.sessionSignature, modified |-> Modified(user, after)]

\* Faulty variant: the save does not write sessionSignature.
SavedWithoutSession(doc, w) ==
    [doc EXCEPT !.nonce = IF "nonce" \in w.modified THEN w.nonce ELSE @,
                !.lastSeen = IF "lastSeen" \in w.modified THEN w.lastSeen ELSE @]

\* Faulty variant: a save whose document was rotated by another request
\* since it was loaded writes the nonce and lastSeen but not sessionSignature.
SavedUnlessRotated(doc, w) ==
    [doc EXCEPT !.nonce = IF "nonce" \in w.modified THEN w.nonce ELSE @,
                !.lastSeen = IF "lastSeen" \in w.modified THEN w.lastSeen ELSE @,
                !.sessionSignature =
                    IF "sessionSignature" \in w.modified
                           /\ doc.nonce = w.sessionSignature.msg.nonce
                    THEN w.sessionSignature ELSE @]

\* Faulty variant: the save writes the session and lastSeen but leaves the
\* stored nonce as it is.
SavedKeepingNonce(doc, w) ==
    [doc EXCEPT !.lastSeen = IF "lastSeen" \in w.modified THEN w.lastSeen ELSE @,
                !.sessionSignature =
                    IF "sessionSignature" \in w.modified THEN w.sessionSignature ELSE @]

\* this.save() of rotateNonce reaching the database: an update that sets the
\* modified paths of the document in memory and leaves the other fields as
\* they are stored.
Saved(doc, w) ==
    [doc EXCEPT !.nonce = IF "nonce" \in w.modified THEN w.nonce ELSE @,
                !.lastSeen = IF "lastSeen" \in w.modified THEN w.lastSeen ELSE @,
                !.sessionSignature =
                    IF "sessionSignature" \in w.modified THEN w.sessionSignature ELSE @]

-----------------------------------------------------------------------------
(* Responses: the status, the error text and the payload of res.json(...);  *)
(* next = TRUE is requireAuth calling next() with req.walletAddress set.    *)

NoChallenge == [wallet |-> <<>>, nonce |-> 0]

NoWrite == [op |-> "none"]

\* write is the database write the handler still awaits before it answers.
Response(op, status, error) ==
    [op |-> op, status |-> status, error |-> error, address |-> <<>>,
     nonce |-> 0, message |-> NoChallenge, at |-> 0, next |-> FALSE,
     write |-> NoWrite]

ErrMissingAddress == "address is required."

ErrMissingBoth == "address and signature are required."

ErrInvalidAddress == "Invalid Ethereum address."

ErrNotRegistered == "Address not registered. Call POST /api/auth/nonce first."

ErrMalformed == "Malformed signature."

ErrMismatch == "Signature does not match the provided address."

ErrMissingHeaders == "Missing auth headers (x-wallet-address, x-wallet-signature)."

ErrInvalidWallet == "Invalid wallet address."

ErrUnauthorized == "Signature verification failed. Please reconnect your wallet."

ErrDuplicate == "Duplicate value for address."

\* The record kept of the challenges POST /nonce has returned for an
\* address: the one returned last; read, the number of rotations of the
\* address stored when the server read the nonce it carries; rotated,
\* whether a rotation of the address has been stored since it was returned;
\* again, whether the challenge returned before it was read under the same
\* number of rotations.
NoneIssued == [challenge |-> NoChallenge, read |-> 0, rotated |-> FALSE, again |-> FALSE]

Issue(before, message, read) ==
    [challenge |-> message, read |-> read, rotated |-> FALSE,
     again |-> before.challenge # NoChallenge /\ before.read = read]

\* requireAuth letting the request through.
Authorize(address) ==
    [Response("requireAuth", 200, "") EXCEPT !.address = address, !.next = TRUE]

\* The body of a successful POST /nonce.
Challenge(address, nonce) ==
    [Response("nonce", 200, "") EXCEPT
        !.address = address, !.nonce = nonce, !.message = buildChallenge(address, nonce)]

\* The body of a successful POST /verify.
Verified(address, lastSeen) ==
    [Response("verify", 200, "") EXCEPT !.address = address, !.at = lastSeen]

\* The call of rotateNonce(newSignature) a handler makes on the document
\* findOne has answered with: the document as loaded, and its _id.
Rotating(id, newSignature) ==
    [op |-> "rotate", id |-> id, user |-> users[id], sessionSignature |-> newSignature]

\* POST /verify whose document passed the checks: its continuation calls
\* rotateNonce(signature); the 200 follows the save.
Accepted(address, id, signature) ==
    [Response("verify", 200, "") EXCEPT
        !.address = address, !.write = Rotating(id, signature)]

\* POST /nonce whose findOne found no document: its continuation calls
\* create; the 200 (or the 409 of a duplicate key) follows the insert.
Creating(address) ==
    [Response("nonce", 200, "") EXCEPT
        !.address = address, !.write = [op |-> "build", address |-> address]]

\* POST /nonce whose findOrCreate has a document to return: the handler
\* resumes after the await and sends that response.  read is the number of
\* rotations of the address stored when the database answered.
Answering(response) ==
    [op |-> "answer", response |-> response, read |-> Len(logins[response.address])]

-----------------------------------------------------------------------------
(* middleware/auth.js: requireAuth.  It reads the collection once and      *)
(* writes nothing.                                                         *)

\* Faulty variant: no primary check, the signature is verified against the
\* current nonce on every request.
requireAuthByNonceOnly(rawAddress, signature) ==
    IF rawAddress = <<>> \/ signature = NoSig
    THEN Response("requireAuth", 401, ErrMissingHeaders)
    ELSE LET address == Checksummed[rawAddress] IN
    IF address = Throws
    THEN Response("requireAuth", 401, ErrInvalidWallet)
    ELSE LET id == findOne(address) IN
    IF id = 0
    THEN Response("requireAuth", 401, ErrNotRegistered)
    ELSE LET recovered == verifyMessage(buildChallenge(address, users[id].nonce), signature) IN
    IF recovered # Throws /\ toLowerCase(recovered) = toLowerCase(address)
    THEN Authorize(address)
    ELSE Response("requireAuth", 401, ErrUnauthorized)

\* Faulty variant: the fallback accepts any signature that recovers, without
\* comparing the signer with the address.
requireAuthAnySigner(rawAddress, signature) ==
    IF rawAddress = <<>> \/ signature = NoSig
    THEN Response("requireAuth", 401, ErrMissingHeaders)
    ELSE LET address == Checksummed[rawAddress] IN
    IF address = Throws
    THEN Response("requireAuth", 401, ErrInvalidWallet)
    ELSE LET id == findOne(address) IN
    IF id = 0
    THEN Response("requireAuth", 401, ErrNotRegistered)
    ELSE LET user == users[id] IN
    IF user.sessionSignature # NullSig /\ user.sessionSignature = signature
    THEN Authorize(address)
    ELSE LET recovered == verifyMessage(buildChallenge(address, user.nonce), signature) IN
    IF recovered # Throws
    THEN Authorize(address)
    ELSE Response("requireAuth", 401, ErrUnauthorized)

\* Faulty variant: an address without a document gets the answer of a
\* failed signature check.
requireAuthUnknownAsUnauthorized(rawAddress, signature) ==
    IF rawAddress = <<>> \/ signature = NoSig
    THEN Response("requireAuth", 401, ErrMissingHeaders)
    ELSE LET address == Checksummed[rawAddress] IN
    IF address = Throws
    THEN Response("requireAuth", 401, ErrInvalidWallet)
    ELSE LET id == findOne(address) IN
    IF id = 0
    THEN Response("requireAuth", 401, ErrUnauthorized)
    ELSE LET user == users[id] IN
    IF user.sessionSignature # NullSig /\ user.sessionSignature = signature
    THEN Authorize(address)
    ELSE LET recovered == verifyMessage(buildChallenge(address, user.nonce), signature) IN
    IF recovered # Throws /\ toLowerCase(recovered) = toLowerCase(address)
    THEN Authorize(address)
    ELSE Response("requireAuth", 401, ErrUnauthorized)

\* Faulty variant: the fallback checks the signer and the address but not
\* the nonce of the signed challenge.
requireAuthIgnoringNonce(rawAddress, signature) ==
    IF rawAddress = <<>> \/ signature = NoSig
    THEN Response("requireAuth", 401, ErrMissingHeaders)
    ELSE LET address == Checksummed[rawAddress] IN
    IF address = Throws
    THEN Response("requireAuth", 401, ErrInvalidWallet)
    ELSE LET id == findOne(address) IN
    IF id = 0
    THEN Response("requireAuth", 401, ErrNotRegistered)
    ELSE LET user == users[id] IN
    IF user.sessionSignature # NullSig /\ user.sessionSignature = signature
    THEN Authorize(address)
    ELSE IF signature.kind = "sig" /\ signature.key = address /\ signature.msg.wallet = address
    THEN Authorize(address)
    ELSE Response("requireAuth", 401, ErrUnauthorized)

\* Faulty variant: only the stored session signature is let through.
requireAuthPrimaryOnly(rawAddress, signature) ==
    IF rawAddress = <<>> \/ signature = NoSig
    THEN Response("requireAuth", 401, ErrMissingHeaders)
    ELSE LET address == Checksummed[rawAddress] IN
    IF address = Throws
    THEN Response("requireAuth", 401, ErrInvalidWallet)
    ELSE LET id == findOne(address) IN
    IF id = 0
    THEN Response("requireAuth", 401, ErrNotRegistered)
    ELSE LET user == users[id] IN
    IF user.sessionSignature # NullSig /\ user.sessionSignature = signature
    THEN Authorize(address)
    ELSE Response("requireAuth", 401, ErrUnauthorized)

requireAuth(rawAddress, signature) ==
    IF rawAddress = <<>> \/ signature = NoSig
    THEN Response("requireAuth", 401, ErrMissingHeaders)
    ELSE LET address == Checksummed[rawAddress] IN
    IF address = Throws
    THEN Response("requireAuth", 401, ErrInvalidWallet)
    ELSE LET id == findOne(address) IN
    IF id = 0
    THEN Response("requireAuth", 401, ErrNotRegistered)
    ELSE LET user == users[id] IN
    IF user.sessionSignature # NullSig /\ user.sessionSignature = signature
    THEN Authorize(address)
    ELSE LET recovered == verifyMessage(buildChallenge(address, user.nonce), signature) IN
    IF recovered # Throws /\ toLowerCase(recovered) = toLowerCase(address)
    THEN Authorize(address)
    ELSE Response("requireAuth", 401, ErrUnauthorized)

\* What requireAuth answers in this state, over the requests of the model.
RequireAuthOutcomes ==
    {requireAuth(rawAddress, signature) : rawAddress \in RawAddresses, signature \in Signatures}

\* A request passing through the middleware with that outcome.
RequireAuth(outcome) ==
    /\ outcome.op = "requireAuth"
    /\ UNCHANGED <<users, pending, nonceCount, clock, issued, logins, held>>

-----------------------------------------------------------------------------
(* routes/auth.js: POST /api/auth/verify *)

\* Faulty variant: a signature that does not parse is answered like one of
\* another signer.
verifyMalformedAsMismatch(rawAddress, signature) ==
    IF rawAddress = <<>> \/ signature = NoSig
    THEN Response("verify", 400, ErrMissingBoth)
    ELSE LET address == Checksummed[rawAddress] IN
    IF address = Throws
    THEN Response("verify", 400, ErrInvalidAddress)
    ELSE LET id == findOne(address) IN
    IF id = 0
    THEN Response("verify", 404, ErrNotRegistered)
    ELSE LET recovered == verifyMessage(buildChallenge(address, users[id].nonce), signature) IN
    IF toLowerCase(recovered) # toLowerCase(address)
    THEN Response("verify", 401, ErrMismatch)
    ELSE Accepted(address, id, signature)

\* Faulty variant: a signature by another signer still rotates the nonce
\* (keeping the stored session) before the request is refused.
verifyRotatingOnMismatch(rawAddress, signature) ==
    IF rawAddress = <<>> \/ signature = NoSig
    THEN Response("verify", 400, ErrMissingBoth)
    ELSE LET address == Checksummed[rawAddress] IN
    IF address = Throws
    THEN Response("verify", 400, ErrInvalidAddress)
    ELSE LET id == findOne(address) IN
    IF id = 0
    THEN Response("verify", 404, ErrNotRegistered)
    ELSE LET recovered == verifyMessage(buildChallenge(address, users[id].nonce), signature) IN
    IF recovered = Throws
    THEN Response("verify", 401, ErrMalformed)
    ELSE IF toLowerCase(recovered) # toLowerCase(address)
    THEN [Response("verify", 401, ErrMismatch) EXCEPT
             !.write = Rotating(id, users[id].sessionSignature)]
    ELSE Accepted(address, id, signature)

\* Faulty variant: the recovered signer is not compared with the address.
verifyWithoutSignerCheck(rawAddress, signature) ==
    IF rawAddress = <<>> \/ signature = NoSig
    THEN Response("verify", 400, ErrMissingBoth)
    ELSE LET address == Checksummed[rawAddress] IN
    IF address = Throws
    THEN Response("verify", 400, ErrInvalidAddress)
    ELSE LET id == findOne(address) IN
    IF id = 0
    THEN Response("verify", 404, ErrNotRegistered)
    ELSE LET recovered == verifyMessage(buildChallenge(address, users[id].nonce), signature) IN
    IF recovered = Throws
    THEN Response("verify", 401, ErrMalformed)
    ELSE Accepted(address, id, signature)

\* The handler's checks, on the document findOne returns in this state.
verify(rawAddress, signature) ==
    IF rawAddress = <<>> \/ signature = NoSig
    THEN Response("verify", 400, ErrMissingBoth)
    ELSE LET address == Checksummed[rawAddress] IN
    IF address = Throws
    THEN Response("verify", 400, ErrInvalidAddress)
    ELSE LET id == findOne(address) IN
    IF id = 0
    THEN Response("verify", 404, ErrNotRegistered)
    ELSE LET recovered == verifyMessage(buildChallenge(address, users[id].nonce), signature) IN
    IF recovered = Throws
    THEN Response("verify", 401, ErrMalformed)
    ELSE IF toLowerCase(recovered) # toLowerCase(address)
    THEN Response("verify", 401, ErrMismatch)
    ELSE Accepted(address, id, signature)

\* What those lines come to in this state, over the requests of the model.
VerifyOutcomes ==
    {verify(rawAddress, signature) : rawAddress \in RawAddresses, signature \in Signatures}

\* The validation and User.findOne of a request: either it answers with an
\* error, or its document passed the checks and its continuation is due.
VerifyRequest(outcome) ==
    IF outcome.write # NoWrite
    THEN /\ BagCardinality(pending) < MaxInflight
         /\ pending' = pending (+) SetToBag({outcome.write})
         /\ UNCHANGED <<users, nonceCount, clock, issued, logins, held>>
    ELSE UNCHANGED <<users, pending, nonceCount, clock, issued, logins, held>>

\* The continuation of a request whose document passed the checks:
\* rotateNonce draws the nonce, reads the clock and issues the save.
VerifyRotate(r, now) ==
    /\ BagIn(r, pending)
    /\ r.op = "rotate"
    /\ pending' = (pending (-) SetToBag({r})) (+)
                      SetToBag({rotateNonce(r.user, r.id, r.sessionSignature, now)})
    /\ nonceCount' = nonceCount + 1
    /\ clock' = now
    /\ UNCHANGED <<users, issued, logins, held>>

\* The save of rotateNonce reaching the database; the handler then answers
\* Verified(address, lastSeen).
VerifySave(w) ==
    /\ BagIn(w, pending)
    /\ w.op = "save"
    /\ users' = [users EXCEPT ![w.id] = Saved(@, w)]
    /\ pending' = pending (-) SetToBag({w})
    /\ issued' = [issued EXCEPT ![users[w.id].address] =
                      IF @.challenge = NoChallenge THEN @ ELSE [@ EXCEPT !.rotated = TRUE]]
    /\ logins' = [logins EXCEPT ![users[w.id].address] = Append(@, w.sessionSignature)]
    /\ held' = [held EXCEPT ![users[w.id].address] = @ \cup {w.nonce}]
    /\ UNCHANGED <<nonceCount, clock>>

-----------------------------------------------------------------------------
(* routes/auth.js: POST /api/auth/nonce, with User.findOrCreate *)

\* Faulty variant: every request answers with a newly drawn nonce.
nonceAlwaysFresh(rawAddress) ==
    IF rawAddress = <<>>
    THEN Response("nonce", 400, ErrMissingAddress)
    ELSE LET address == Checksummed[rawAddress] IN
    IF address = Throws
    THEN Response("nonce", 400, ErrInvalidAddress)
    ELSE LET id == findOne(address) IN
    IF id # 0
    THEN Challenge(address, generateNonce)
    ELSE Creating(address)

\* Faulty variant: the address is looked up as submitted, without
\* ethers.getAddress.
nonceWithoutValidation(rawAddress) ==
    IF rawAddress = <<>>
    THEN Response("nonce", 400, ErrMissingAddress)
    ELSE LET id == findOne(rawAddress) IN
    IF id # 0
    THEN Challenge(rawAddress, users[id].nonce)
    ELSE Creating(rawAddress)

\* The handler's checks and what findOrCreate does with the answer findOne
\* gives in this state.
nonce(rawAddress) ==
    IF rawAddress = <<>>
    THEN Response("nonce", 400, ErrMissingAddress)
    ELSE LET address == Checksummed[rawAddress] IN
    IF address = Throws
    THEN Response("nonce", 400, ErrInvalidAddress)
    ELSE LET id == findOne(address) IN
    IF id # 0
    THEN Challenge(address, users[id].nonce)
    ELSE Creating(address)

\* What those lines come to in this state, over the requests of the model.
NonceOutcomes == {nonce(rawAddress) : rawAddress \in RawAddresses}

\* The validation and findOne of a request: it answers with an error, or
\* findOne found the document and the handler is to resume with it, or it
\* found none and the continuation of findOrCreate is due.
NonceRequest(outcome) ==
    IF outcome.status = 200
    THEN /\ BagCardinality(pending) < MaxInflight
         /\ pending' = pending (+)
                SetToBag({IF outcome.write # NoWrite THEN outcome.write
                                                    ELSE Answering(outcome)})
         /\ UNCHANGED <<users, nonceCount, clock, issued, logins, held>>
    ELSE UNCHANGED <<users, pending, nonceCount, clock, issued, logins, held>>

\* The handler resuming after await User.findOrCreate(address): it builds
\* the challenge from the nonce of the document it was given and answers.
NonceAnswer(r) ==
    /\ BagIn(r, pending)
    /\ r.op = "answer"
    /\ pending' = pending (-) SetToBag({r})
    /\ issued' = [issued EXCEPT ![r.response.address] =
                      Issue(@, r.response.message, r.read)]
    /\ UNCHANGED <<users, nonceCount, clock, logins, held>>

\* The continuation of findOrCreate after findOne found nothing: create
\* builds the document, drawing its nonce, and issues the insert.
NonceBuild(r) ==
    /\ BagIn(r, pending)
    /\ r.op = "build"
    /\ pending' = (pending (-) SetToBag({r})) (+)
                      SetToBag({[op |-> "create", doc |-> NewUser(r.address)]})
    /\ nonceCount' = nonceCount + 1
    /\ UNCHANGED <<users, clock, issued, logins, held>>

\* The insert of User.create reaching the database: refused by the unique
\* index (the error handler answers 409 ErrDuplicate), or stored, and the
\* handler is to resume with the document created.
NonceCreate(w) ==
    /\ BagIn(w, pending)
    /\ w.op = "create"
    /\ IF DuplicateKey(w.doc)
       THEN /\ pending' = pending (-) SetToBag({w})
            /\ UNCHANGED <<users, held>>
       ELSE /\ users' = Append(users, w.doc)
            /\ pending' = (pending (-) SetToBag({w})) (+)
                   SetToBag({Answering(Challenge(w.doc.address, w.doc.nonce))})
            /\ held' = [held EXCEPT ![w.doc.address] = @ \cup {w.doc.nonce}]
    /\ UNCHANGED <<nonceCount, clock, issued, logins>>

-----------------------------------------------------------------------------
(* blockchain/contracts/DocumentRegistry.sol                                *)
(*                                                                         *)
(* A transaction is one call of an external function by a sender; it       *)
(* either reverts with a message, leaving the storage as it was, or        *)
(* commits its writes and emits its event.  A committed transaction is     *)
(* mined in the block being assembled, which it shares with the            *)
(* transactions mined before it since the last block was sealed;           *)
(* block.timestamp is one value per block, here the number of the block.   *)
(* A bytes32 hash and a CID are opaque strings; bytes32(0), address(0)     *)
(* and the empty string are the values Solidity gives to storage never     *)
(* written.                                                                *)

chainVars == <<_docs, _versions, _access, blocks, transactions, lastAccessCall>>

MaxTransactions == 4

ZeroHash == "bytes32(0)"

ZeroAddress == "address(0)"

\* The externally owned accounts that send transactions.
Senders == {"addr1", "addr2"}

\* The values of an address parameter.
Addresses == Senders \cup {ZeroAddress}

DocumentHashes == {ZeroHash, "hash1", "hash2"}

Cids == {"", "QmA", "QmB"}

\* A DocumentMetadata slot never written.
NoDocument ==
    [owner |-> ZeroAddress, cid |-> "", createdAt |-> 0,
     updatedAt |-> 0, versionCount |-> 0, exists |-> FALSE]

NoEvent ==
    [name |-> "", documentHash |-> ZeroHash, owner |-> ZeroAddress,
     user |-> ZeroAddress, version |-> 0, cid |-> ""]

\* block.timestamp of the transaction being executed: that of the block
\* being assembled.
Timestamp == blocks + 1

\* A transaction that reverts: the storage is as before, nothing is emitted.
Revert(call, message) ==
    [call |-> call, revert |-> message, docs |-> _docs, versions |-> _versions,
     access |-> _access, event |-> NoEvent]

\* A transaction that commits.
Commit(call, docs, versions, access, event) ==
    [call |-> call, revert |-> "", docs |-> docs, versions |-> versions,
     access |-> access, event |-> event]

\* Faulty variant: the modifier checks that the document exists, not who
\* calls.
onlyOwnerAnySender(sender, documentHash) ==
    IF ~_docs[documentHash].exists THEN "Document not found" ELSE ""

\* The modifier: the message it reverts with, "" when it lets the body run.
onlyOwner(sender, documentHash) ==
    IF ~_docs[documentHash].exists THEN "Document not found"
    ELSE IF _docs[documentHash].owner # sender THEN "Not the document owner"
    ELSE ""

\* Faulty variant: a registered hash can be registered again.
registerDocumentOverwriting(sender, documentHash, cid) ==
    IF documentHash = ZeroHash THEN Revert("registerDocument", "documentHash required")
    ELSE IF cid = "" THEN Revert("registerDocument", "CID required")
    ELSE Commit("registerDocument",
            [_docs EXCEPT ![documentHash] =
                [owner |-> sender, cid |-> cid, createdAt |-> Timestamp,
                 updatedAt |-> Timestamp, versionCount |-> 1, exists |-> TRUE]],
            [_versions EXCEPT ![documentHash] = Append(@, cid)],
            _access,
            [NoEvent EXCEPT !.name = "DocumentRegistered",
                !.documentHash = documentHash, !.owner = sender, !.cid = cid])

registerDocument(sender, documentHash, cid) ==
    IF documentHash = ZeroHash THEN Revert("registerDocument", "documentHash required")
    ELSE IF cid = "" THEN Revert("registerDocument", "CID required")
    ELSE IF _docs[documentHash].exists
    THEN Revert("registerDocument", "Document already registered")
    ELSE Commit("registerDocument",
            [_docs EXCEPT ![documentHash] =
                [owner |-> sender, cid |-> cid, createdAt |-> Timestamp,
                 updatedAt |-> Timestamp, versionCount |-> 1, exists |-> TRUE]],
            [_versions EXCEPT ![documentHash] = Append(@, cid)],
            _access,
            [NoEvent EXCEPT !.name = "DocumentRegistered",
                !.documentHash = documentHash, !.owner = sender, !.cid = cid])

\* Faulty variant: the new CID is stored but not pushed to the history.
updateDocumentWithoutHistory(sender, documentHash, newCid) ==
    IF onlyOwner(sender, documentHash) # ""
    THEN Revert("updateDocument", onlyOwner(sender, documentHash))
    ELSE IF newCid = "" THEN Revert("updateDocument", "New CID required")
    ELSE Commit("updateDocument",
            [_docs EXCEPT ![documentHash].cid = newCid,
                          ![documentHash].updatedAt = Timestamp,
                          ![documentHash].versionCount = @ + 1],
            _versions,
            _access,
            [NoEvent EXCEPT !.name = "DocumentUpdated",
                !.documentHash = documentHash, !.owner = sender,
                !.version = _docs[documentHash].versionCount + 1, !.cid = newCid])

updateDocument(sender, documentHash, newCid) ==
    IF onlyOwner(sender, documentHash) # ""
    THEN Revert("updateDocument", onlyOwner(sender, documentHash))
    ELSE IF newCid = "" THEN Revert("updateDocument", "New CID required")
    ELSE Commit("updateDocument",
            [_docs EXCEPT ![documentHash].cid = newCid,
                          ![documentHash].updatedAt = Timestamp,
                          ![documentHash].versionCount = @ + 1],
            [_versions EXCEPT ![documentHash] = Append(@, newCid)],
            _access,
            [NoEvent EXCEPT !.name = "DocumentUpdated",
                !.documentHash = documentHash, !.owner = sender,
                !.version = _docs[documentHash].versionCount + 1, !.cid = newCid])

grantAccess(sender, documentHash, user) ==
    IF onlyOwner(sender, documentHash) # ""
    THEN Revert("grantAccess", onlyOwner(sender, documentHash))
    ELSE IF user = ZeroAddress THEN Revert("grantAccess", "Invalid address")
    ELSE Commit("grantAccess", _docs, _versions,
            [_access EXCEPT ![documentHash][user] = TRUE],
            [NoEvent EXCEPT !.name = "AccessGranted",
                !.documentHash = documentHash, !.owner = sender, !.user = user])

revokeAccess(sender, documentHash, user) ==
    IF onlyOwner(sender, documentHash) # ""
    THEN Revert("revokeAccess", onlyOwner(sender, documentHash))
    ELSE Commit("revokeAccess", _docs, _versions,
            [_access EXCEPT ![documentHash][user] = FALSE],
            [NoEvent EXCEPT !.name = "AccessRevoked",
                !.documentHash = documentHash, !.owner = sender, !.user = user])

\* Faulty variant: the owner is looked up in the access map like any user.
hasAccessByGrantOnly(documentHash, user) ==
    IF ~_docs[documentHash].exists THEN FALSE
    ELSE _access[documentHash][user]

hasAccess(documentHash, user) ==
    IF ~_docs[documentHash].exists THEN FALSE
    ELSE IF _docs[documentHash].owner = user THEN TRUE
    ELSE _access[documentHash][user]

\* The view reverts with "Document not found" on a hash never registered.
getVersionCount(documentHash) ==
    IF ~_docs[documentHash].exists THEN "Document not found"
    ELSE Len(_versions[documentHash])

\* What the calls of each function come to in this state.
RegisterOutcomes ==
    {registerDocument(s, h, c) : s \in Senders, h \in DocumentHashes, c \in Cids}

UpdateOutcomes ==
    {updateDocument(s, h, c) : s \in Senders, h \in DocumentHashes, c \in Cids}

GrantOutcomes ==
    {grantAccess(s, h, u) : s \in Senders, h \in DocumentHashes, u \in Addresses}

RevokeOutcomes ==
    {revokeAccess(s, h, u) : s \in Senders, h \in DocumentHashes, u \in Addresses}

\* The most recent committed grantAccess / revokeAccess per document and user.
NoAccessCall == "none"

Recorded(event) ==
    IF event.name = "AccessGranted"
    THEN [lastAccessCall EXCEPT ![event.documentHash][event.user] = "grant"]
    ELSE IF event.name = "AccessRevoked"
    THEN [lastAccessCall EXCEPT ![event.documentHash][event.user] = "revoke"]
    ELSE lastAccessCall

\* A transaction mined: reverted, or committed in the block being
\* assembled, which is sealed after it or takes the next transaction too.
Mined(outcome) ==
    IF outcome.revert # ""
    THEN UNCHANGED <<_docs, _versions, _access, blocks, transactions, lastAccessCall>>
    ELSE /\ transactions < MaxTransactions
         /\ _docs' = outcome.docs
         /\ _versions' = outcome.versions
         /\ _access' = outcome.access
         /\ blocks' \in {blocks, blocks + 1}
         /\ transactions' = transactions + 1
         /\ lastAccessCall' = Recorded(outcome.event)

RegisterDocument(outcome) == outcome.call = "registerDocument" /\ Mined(outcome)

UpdateDocument(outcome) == outcome.call = "updateDocument" /\ Mined(outcome)

GrantAccess(outcome) == outcome.call = "grantAccess" /\ Mined(outcome)

RevokeAccess(outcome) == outcome.call = "revokeAccess" /\ Mined(outcome)

-----------------------------------------------------------------------------
(* The document index of the server:                                        *)
(*   server/src/models/Document.js, models/Audit.js                         *)
(*   routes/document.js (canonical lifecycle, and the older upload and      *)
(*   update routes), routes/audit.js                                        *)
(*   services/blockchainService.js, ipfsService.js, auditService.js         *)
(*                                                                         *)
(* Every route runs behind requireAuth; a request carries the wallet that  *)
(* requireAuth let through (req.walletAddress, checksummed).  A handler is *)
(* cut where it awaits the database or the RPC node after it has read the  *)
(* database: the document it loaded is carried by the operation in flight  *)
(* and the continuation acts on that copy.  auditService.log is called     *)
(* without await: its insert is in flight when the handler has answered.   *)
(* Date.now() follows the system clock; what is kept of a reading is      *)
(* whether it equals another (and, for createdAt, which came first), so a  *)
(* reading is one of those the state holds or one it does not hold yet.  A client sends its transactions to  *)
(* the contract on its own: the server never writes to the chain.          *)

MaxDocuments == 1

MaxVersions == 2

MaxAudits == 2

MaxClock == 2

\* The transactions the clients of the index send to the contract.
MaxClientTransactions == 3

\* .limit(50) of GET /api/audits/my.
AuditLimit == 50

\* req.file: the file of a multipart request, NoFile when there is none.
NoFile == "no file"

Files == {"fileA", "fileB"}

\* req.body.name || req.file.originalname, of a request without body.name.
originalname(file) == IF file = "fileA" THEN "a.pdf" ELSE "b.pdf"

\* req.file.mimetype
mimetype(file) == "application/pdf"

\* The operations in flight of the given kinds.
InFlight(ops) == {p \in BagToSet(inflight) : p.op \in ops}

\* Their number, an operation issued twice counted twice.
Awaited(ops) == BagCardinality([p \in InFlight(ops) |-> inflight[p]])

\* What becomes of the pin: the node returns the CID of the content, or
\* getIPFS returns no client, or client.add throws.
IpfsOutcomes == {"pinned", "no client", "add throws"}

\* `mock-cid-${Date.now()}`, in the order the readings are first seen.
MockCids == <<"mock-cid-1", "mock-cid-2", "mock-cid-3">>

\* The CIDs the index and the contract hold: those of the versions stored,
\* of the versions being saved and of the histories on chain.
HeldCids ==
    UNION {{documents[i].versions[v].ipfsHash : v \in DOMAIN documents[i].versions} :
              i \in DOMAIN documents}
    \cup {p.write.push[1].ipfsHash :
              p \in {q \in InFlight({"save"}) : q.write.push # <<>>}}
    \cup UNION {{_versions[h][v] : v \in DOMAIN _versions[h]} : h \in DocumentHashes}

\* Date.now() of the fallback: the milliseconds told apart, those of the
\* mock CIDs held and one more.
DateNow ==
    {now \in 1..MaxClock :
        now <= Cardinality({n \in DOMAIN MockCids : MockCids[n] \in HeldCids}) + 1}

\* Math.floor(Date.now() / 1000) of an upload: the seconds told apart, those
\* of the documents stored and one more.
UploadTimes ==
    1..(Cardinality({documents[i].timestamp : i \in DOMAIN documents} \ {0}) + 1)

\* ipfsService.addFile: the CID of the pinned content, equal contents giving
\* the same CID; without a client or when the pin throws, a mock CID made of
\* the clock's reading whatever the content.
addFile(file, ipfs, now) ==
    IF ipfs = "pinned"
    THEN (IF file = "fileA" THEN "QmA" ELSE "QmB")
    ELSE MockCids[now]

\* req.body.txHash || null
NoTx == "null"

TxHashes == {NoTx, "0xtx"}

\* documentHash of a document created without one: the schema's default.
NullHash == "null"

\* The account an address string denotes once ABI-encoded, whatever its
\* letter case.
AbiAddress(address) ==
    CASE toLowerCase(address) = <<"a", "b">> -> "addr1"
      [] toLowerCase(address) = <<"b", "a">> -> "addr2"
      [] OTHER -> ZeroAddress

\* Document.findById finding nothing.
NotFound ==
    [id |-> 0, documentHash |-> ZeroHash, ipfsHash |-> "", owner |-> <<>>,
     name |-> "", mimeType |-> "", timestamp |-> 0,
     currentVersion |-> 0, versions |-> <<>>, registeredOnChain |-> FALSE,
     txHash |-> NoTx, isDeleted |-> FALSE]

\* What computeDocumentHash packed for a stored document: the timestamp is
\* kept with the document to tell the preimages apart.
Preimage(document) ==
    <<document.owner, document.versions[1].ipfsHash, document.name,
      document.mimeType, document.timestamp>>

\* The bytes32 values the index computes, in the order they are first seen.
HashNames == <<"hash1", "hash2">>

\* keccak256 of the packed metadata, a bytes32 that is never zero: the hash
\* of a stored document when the same values were packed for it, a hash no
\* stored document has otherwise.
computeDocumentHash(owner, cid, name, mimeType, timestamp) ==
    LET same == {i \in DOMAIN documents :
                    /\ documents[i].documentHash # NullHash
                    /\ Preimage(documents[i]) = <<owner, cid, name, mimeType, timestamp>>}
        fresh == {n \in DOMAIN HashNames :
                    \A i \in DOMAIN documents : documents[i].documentHash # HashNames[n]}
    IN  IF same # {}
        THEN documents[CHOOSE i \in same : TRUE].documentHash
        ELSE HashNames[CHOOSE n \in fresh : \A m \in fresh : n <= m]

\* The document Document.create stores for an upload.
NewDocument(documentHash, owner, cid, name, mimeType, timestamp) ==
    [id |-> Len(documents) + 1,
     documentHash |-> documentHash,
     ipfsHash |-> cid, owner |-> owner,
     name |-> name, mimeType |-> mimeType, timestamp |-> timestamp,
     currentVersion |-> 1,
     versions |-> <<[version |-> 1, ipfsHash |-> cid]>>,
     registeredOnChain |-> FALSE, txHash |-> NoTx, isDeleted |-> FALSE]

findById(id) == IF id \in DOMAIN documents THEN documents[id] ELSE NotFound

\* The ids a request can name: those of the stored documents and one more.
DocumentIds == 1..(Len(documents) + 1)

\* models/Audit.js: the values the schema accepts for action.
AuditActions == {"UPLOAD", "UPDATE", "ACCESS_GRANT", "ACCESS_REVOKE", "FILE_VIEW", "DELETE"}

NoAudit == "none"

\* createdAt of the timestamps option, set when Audit.create builds the
\* entry: the clock does not run backwards, so the reading is that of the
\* entry created last or a later one.
AuditTimes ==
    LET created == {audits[i].createdAt : i \in DOMAIN audits}
                   \cup {p.entry.createdAt : p \in InFlight({"insert"})}
        latest == CHOOSE t \in created : \A u \in created : u <= t
    IN  IF created = {} THEN {1} ELSE {latest, latest + 1}

\* auditService.log: the inserts the call issues.  Audit.create validates
\* the entry (walletAddress is stored in lower case) and stamps it; a
\* validation error is caught and nothing is sent to the database.
log(walletAddress, action, documentId, createdAt) ==
    IF action \in AuditActions
    THEN SetToBag({[op |-> "insert",
                    entry |-> [walletAddress |-> toLowerCase(walletAddress),
                               action |-> action, documentId |-> documentId,
                               createdAt |-> createdAt]]})
    ELSE EmptyBag

\* The RPC call behind the service answers or throws.
RpcOutcomes == {"ok", "throws"}

\* Faulty variant: the service answers true when the RPC call throws.
serviceHasAccessFailingOpen(walletAddress, documentHash, rpc) ==
    IF rpc = "throws" \/ documentHash = NullHash THEN TRUE
    ELSE hasAccess(documentHash, AbiAddress(walletAddress))

\* blockchainService.hasAccess: the contract's answer, false when the RPC
\* call throws or the documentHash is no bytes32 to encode.
serviceHasAccess(walletAddress, documentHash, rpc) ==
    IF rpc = "throws" \/ documentHash = NullHash THEN FALSE
    ELSE hasAccess(documentHash, AbiAddress(walletAddress))

NoSave == [op |-> "none"]

\* What a handler comes to before it next awaits: status and error of
\* res.json (status 0 while it has not answered), the document data
\* returned, the operation it awaits, the action it logs once it has
\* succeeded and the wallet of the request.
Answer(op, status, error) ==
    [op |-> op, status |-> status, error |-> error, document |-> NotFound,
     cid |-> "", write |-> NoSave, audit |-> NoAudit, wallet |-> <<>>]

\* A field a save leaves alone: Mongoose writes only the modified paths.
Keep == "keep"

\* document.save(): $set of the paths modified on the loaded document and
\* $push of the entries pushed on versions; the schema has versionKey false,
\* so the write is applied to whatever is stored.
SaveOf(document, registered, txHash, ipfsHash, currentVersion, push) ==
    [op |-> "save", id |-> document.id,
     registeredOnChain |-> registered /\ ~document.registeredOnChain,
     txHash |-> IF txHash = document.txHash THEN Keep ELSE txHash,
     ipfsHash |-> IF ipfsHash = document.ipfsHash THEN Keep ELSE ipfsHash,
     currentVersion |-> IF currentVersion = document.currentVersion THEN 0 ELSE currentVersion,
     push |-> push]

SavedDocument(stored, w) ==
    [stored EXCEPT
        !.registeredOnChain = IF w.registeredOnChain THEN TRUE ELSE @,
        !.txHash = IF w.txHash = Keep THEN @ ELSE w.txHash,
        !.ipfsHash = IF w.ipfsHash = Keep THEN @ ELSE w.ipfsHash,
        !.currentVersion = IF w.currentVersion = 0 THEN @ ELSE w.currentVersion,
        !.versions = @ \o w.push]

\* document.owner.toLowerCase() === req.walletAddress.toLowerCase()
isOwner(document, walletAddress) ==
    toLowerCase(document.owner) = toLowerCase(walletAddress)

\* POST /api/documents/upload of the canonical lifecycle: the clock is read
\* by the pin's fallback and again for the timestamp.
upload(walletAddress, file, ipfs, pinnedAt, timestamp) ==
    IF file = NoFile THEN Answer("upload", 400, "No file uploaded.")
    ELSE LET cid == addFile(file, ipfs, pinnedAt)
             name == originalname(file)
             mimeType == mimetype(file)
             owner == getAddress(walletAddress)
             documentHash == computeDocumentHash(owner, cid, name, mimeType, timestamp)
         IN  [Answer("upload", 201, "") EXCEPT
                 !.document = NewDocument(documentHash, owner, cid, name, mimeType, timestamp),
                 !.cid = cid,
                 !.write = [op |-> "create"],
                 !.audit = "FILE_UPLOAD",
                 !.wallet = owner]

\* POST /api/documents/upload of the older routes: no documentHash is
\* computed, and the owner is req.walletAddress as it is.
uploadUnhashed(walletAddress, file, ipfs, pinnedAt) ==
    IF file = NoFile THEN Answer("upload", 400, "No file uploaded.")
    ELSE LET cid == addFile(file, ipfs, pinnedAt)
         IN  [Answer("upload", 201, "") EXCEPT
                 !.document = NewDocument(NullHash, walletAddress, cid,
                                          originalname(file), mimetype(file), 0),
                 !.cid = cid,
                 !.write = [op |-> "create"],
                 !.audit = "FILE_UPLOAD",
                 !.wallet = walletAddress]

\* Faulty variant: the registration is confirmed for any caller.
confirmForAnyone(document, walletAddress, txHash) ==
    IF document = NotFound THEN Answer("confirm", 404, "Document not found.")
    ELSE [Answer("confirm", 200, "") EXCEPT
             !.write = SaveOf(document, TRUE, txHash, document.ipfsHash,
                              document.currentVersion, <<>>),
             !.wallet = walletAddress]

\* POST /api/documents/:id/confirm, from the document findById returned to
\* its save.
confirm(document, walletAddress, txHash) ==
    IF document = NotFound THEN Answer("confirm", 404, "Document not found.")
    ELSE IF ~isOwner(document, walletAddress) THEN Answer("confirm", 403, "Forbidden.")
    ELSE [Answer("confirm", 200, "") EXCEPT
             !.write = SaveOf(document, TRUE, txHash, document.ipfsHash,
                              document.currentVersion, <<>>),
             !.wallet = walletAddress]

\* await ipfsService.addFile(req.file.buffer) of a version handler, with the
\* document it loaded.
Pinning(document, file) == [op |-> "addFile", document |-> document, file |-> file]

\* POST /api/documents/:id/prepare-version, from the document findById
\* returned to the pin.
prepareVersion(document, walletAddress, file) ==
    IF file = NoFile THEN Answer("prepare-version", 400, "No file uploaded.")
    ELSE IF document = NotFound \/ document.isDeleted
    THEN Answer("prepare-version", 404, "Document not found.")
    ELSE IF ~isOwner(document, walletAddress)
    THEN Answer("prepare-version", 403, "Only the owner can update.")
    ELSE [Answer("prepare-version", 0, "") EXCEPT
             !.write = Pinning(document, file),
             !.wallet = walletAddress]

\* The version a handler appends to the document it loaded.
NextVersion(document, newCid, txHash) ==
    LET newVersion == document.currentVersion + 1
    IN  [write |-> SaveOf(document, FALSE, txHash, newCid, newVersion,
                          <<[version |-> newVersion, ipfsHash |-> newCid]>>),
         document |-> [document EXCEPT
                          !.ipfsHash = newCid,
                          !.currentVersion = newVersion,
                          !.txHash = txHash,
                          !.versions = Append(@, [version |-> newVersion, ipfsHash |-> newCid])]]

\* POST /api/documents/:id/confirm-version, up to its save.
confirmVersion(document, walletAddress, newCid, txHash) ==
    IF newCid = "" THEN Answer("confirm-version", 400, "newCid required.")
    ELSE IF document = NotFound \/ document.isDeleted
    THEN Answer("confirm-version", 404, "Document not found.")
    ELSE IF ~isOwner(document, walletAddress)
    THEN Answer("confirm-version", 403, "Forbidden.")
    ELSE [Answer("confirm-version", 200, "") EXCEPT
             !.write = NextVersion(document, newCid, txHash).write,
             !.document = NextVersion(document, newCid, txHash).document,
             !.audit = "VERSION_UPDATE",
             !.wallet = walletAddress]

\* POST /api/documents/:id/update, the one-step route of the older routes,
\* from the document findById returned to the pin.
update(document, walletAddress, file) ==
    IF file = NoFile THEN Answer("update", 400, "No file uploaded.")
    ELSE IF document = NotFound \/ document.isDeleted
    THEN Answer("update", 404, "Document not found.")
    ELSE IF ~isOwner(document, walletAddress)
    THEN Answer("update", 403, "Only the document owner can upload new versions.")
    ELSE [Answer("update", 0, "") EXCEPT
             !.write = Pinning(document, file),
             !.audit = "VERSION_UPDATE",
             !.wallet = walletAddress]

\* Faulty variant: any authenticated caller is served.
readWithoutAccessCheck(op, document, walletAddress) ==
    IF document = NotFound \/ document.isDeleted
    THEN Answer(op, 404, "Document not found.")
    ELSE [Answer(op, 200, "") EXCEPT !.document = document, !.wallet = walletAddress]

\* GET /:id and GET /:id/versions from the document findById returned: 404,
\* the owner served, or blockchainService.hasAccess awaited with the
\* document loaded.
read(op, document, walletAddress) ==
    IF document = NotFound \/ document.isDeleted
    THEN Answer(op, 404, "Document not found.")
    ELSE IF isOwner(document, walletAddress)
    THEN [Answer(op, 200, "") EXCEPT !.document = document, !.wallet = walletAddress]
    ELSE [Answer(op, 0, "") EXCEPT
             !.write = [op |-> "hasAccess", document |-> document],
             !.wallet = walletAddress]

\* GET /api/documents/:id/versions
getVersions(document, walletAddress) == read("versions", document, walletAddress)

\* GET /api/documents/:id: a served view is logged after the answer.
getDocument(document, walletAddress) ==
    LET answer == read("document", document, walletAddress)
    IN  IF answer.status = 404 THEN answer ELSE [answer EXCEPT !.audit = "FILE_VIEW"]

\* The operation a handler awaits, with what its continuation needs.
Awaiting(answer) ==
    [op |-> answer.write.op, route |-> answer.op, write |-> answer.write,
     audit |-> answer.audit, wallet |-> answer.wallet]

\* The continuation of GET /:id and GET /:id/versions once
\* blockchainService.hasAccess has answered: 403, or the document as it was
\* loaded.
authorized(call, rpc) ==
    IF ~serviceHasAccess(call.wallet, call.write.document.documentHash, rpc)
    THEN Answer(call.route, 403, "Access denied.")
    ELSE [Answer(call.route, 200, "") EXCEPT
             !.document = call.write.document,
             !.audit = call.audit,
             !.wallet = call.wallet]

\* The continuation of prepare-version and update once ipfsService.addFile
\* has answered: prepare-version returns the CID, update appends the version
\* to the copy it loaded and saves.
pinned(call, ipfs, now) ==
    LET document == call.write.document
        newCid == addFile(call.write.file, ipfs, now)
    IN  IF call.route = "prepare-version"
        THEN [Answer("prepare-version", 200, "") EXCEPT
                 !.cid = newCid, !.document = document, !.wallet = call.wallet]
        ELSE [Answer("update", 200, "") EXCEPT
                 !.write = NextVersion(document, newCid, document.txHash).write,
                 !.document = NextVersion(document, newCid, document.txHash).document,
                 !.audit = call.audit,
                 !.wallet = call.wallet]

\* .sort({ createdAt: -1 }): the orders the database can return, later
\* entries first and entries of one createdAt in any order.
Newest(entries) ==
    IF entries = <<>> THEN {<<>>}
    ELSE {[i \in 1..Len(entries) |-> entries[order[i]]] :
             order \in {o \in [1..Len(entries) -> 1..Len(entries)] :
                          /\ \A i, j \in 1..Len(entries) : i # j => o[i] # o[j]
                          /\ \A i, j \in 1..Len(entries) :
                                i < j => entries[o[i]].createdAt >= entries[o[j]].createdAt}}

\* GET /api/audits/my: the answers it can give, the wallet's entries newest
\* first, at most AuditLimit; the filter value is cast by the schema and so
\* lower-cased.
getMyAudits(walletAddress) ==
    LET mine == SelectSeq(audits, LAMBDA e : e.walletAddress = toLowerCase(walletAddress))
    IN  {SubSeq(sorted, 1, IF Len(sorted) < AuditLimit THEN Len(sorted) ELSE AuditLimit) :
            sorted \in Newest(mine)}

\* The bodies of the requests that carry a file: every file while the index
\* has room for a document, none once it is full.
Uploadable == IF Len(documents) < MaxDocuments THEN Files \cup {NoFile} ELSE {NoFile}

\* The requests the index can receive in its current state.
UploadOutcomes ==
    {upload(w, f, ipfs, pinnedAt, timestamp) :
        w \in Wallets, f \in Uploadable, ipfs \in IpfsOutcomes,
        pinnedAt \in DateNow, timestamp \in UploadTimes}

UploadUnhashedOutcomes ==
    {uploadUnhashed(w, f, ipfs, pinnedAt) :
        w \in Wallets, f \in Uploadable, ipfs \in IpfsOutcomes, pinnedAt \in DateNow}

ConfirmOutcomes ==
    {confirm(findById(id), w, tx) : id \in DocumentIds, w \in Wallets, tx \in TxHashes}

PrepareVersionOutcomes ==
    {prepareVersion(findById(id), w, f) :
        id \in DocumentIds, w \in Wallets, f \in Files \cup {NoFile}}

\* The CIDs prepare-version can answer: those the node returns and the mock
\* CIDs of the fallback.
PreparedCids ==
    {addFile(f, ipfs, now) : f \in Files, ipfs \in IpfsOutcomes, now \in DateNow}

ConfirmVersionOutcomes ==
    {confirmVersion(findById(id), w, c, tx) :
        id \in DocumentIds, w \in Wallets, c \in Cids \cup PreparedCids, tx \in TxHashes}

UpdateRequestOutcomes ==
    {update(findById(id), w, f) :
        id \in DocumentIds, w \in Wallets, f \in Files \cup {NoFile}}

GetDocumentOutcomes ==
    {getDocument(findById(id), w) : id \in DocumentIds, w \in Wallets}

GetVersionsOutcomes ==
    {getVersions(findById(id), w) : id \in DocumentIds, w \in Wallets}

\* The calls of auditService.log issued, within the bound on the trail.
Logging(calls) ==
    Len(audits) + Awaited({"insert"}) + BagCardinality(calls) <= MaxAudits

\* POST /upload of either revision: Document.create, then the answer and the
\* call of auditService.log.
Upload(answer) ==
    /\ answer.op = "upload"
    /\ IF answer.status = 201
       THEN /\ Len(documents) < MaxDocuments
            /\ documents' = Append(documents, answer.document)
            /\ \E createdAt \in AuditTimes :
                  LET calls == log(answer.wallet, answer.audit, answer.document.id, createdAt)
                  IN  Logging(calls) /\ inflight' = inflight (+) calls
       ELSE UNCHANGED <<documents, inflight>>
    /\ UNCHANGED audits

\* A handler up to its next await: the operation it awaits is in flight, or
\* it has answered, and logged when it served.
Handled(answer) ==
    /\ IF answer.write.op \in {"save", "hasAccess", "addFile"}
       THEN /\ Awaited({"save", "hasAccess", "addFile"}) < MaxInflight
            /\ answer.write.op = "save" => answer.document.currentVersion <= MaxVersions
            /\ (answer.write.op = "addFile" /\ answer.op = "update") =>
                  answer.write.document.currentVersion < MaxVersions
            /\ inflight' = inflight (+) SetToBag({Awaiting(answer)})
       ELSE IF answer.status = 200
       THEN \E createdAt \in AuditTimes :
               LET calls == log(answer.wallet, answer.audit, answer.document.id, createdAt)
               IN  Logging(calls) /\ inflight' = inflight (+) calls
       ELSE UNCHANGED inflight
    /\ UNCHANGED <<documents, audits>>

\* POST /:id/confirm up to its save.
ConfirmRequest(answer) == answer.op = "confirm" /\ Handled(answer)

\* POST /:id/prepare-version up to its answer or to the pin.
PrepareVersion(answer) == answer.op = "prepare-version" /\ Handled(answer)

\* POST /:id/confirm-version up to its save.
ConfirmVersionRequest(answer) == answer.op = "confirm-version" /\ Handled(answer)

\* POST /:id/update up to its answer or to the pin.
UpdateRequest(answer) == answer.op = "update" /\ Handled(answer)

\* ipfsService.addFile answers: prepare-version returns the CID and writes
\* nothing, update issues its save.
Pinned(call, ipfs, now) ==
    /\ call.op = "addFile"
    /\ LET answer == pinned(call, ipfs, now)
       IN  inflight' = (inflight (-) SetToBag({call})) (+)
                       (IF answer.write.op = "save"
                        THEN SetToBag({Awaiting(answer)}) ELSE EmptyBag)
    /\ UNCHANGED <<documents, audits>>

\* GET /:id up to its answer or to the call of the contract.
GetDocumentRequest(answer) == answer.op = "document" /\ Handled(answer)

\* GET /:id/versions up to its answer or to the call of the contract.
GetVersionsRequest(answer) == answer.op = "versions" /\ Handled(answer)

\* A save reaches the database; the version handlers then log.
Save(p) ==
    /\ p.op = "save"
    /\ documents' = [documents EXCEPT ![p.write.id] = SavedDocument(@, p.write)]
    /\ \E createdAt \in AuditTimes :
          LET calls == log(p.wallet, p.audit, p.write.id, createdAt)
          IN  Logging(calls) /\ inflight' = (inflight (-) SetToBag({p})) (+) calls
    /\ UNCHANGED audits

\* blockchainService.hasAccess answers: the contract is read now, for the
\* document loaded before; a served view is logged after the answer.
Authorized(call, rpc) ==
    /\ call.op = "hasAccess"
    /\ \E createdAt \in AuditTimes :
          LET answer == authorized(call, rpc)
              calls == IF answer.status = 200
                       THEN log(answer.wallet, answer.audit, answer.document.id, createdAt)
                       ELSE EmptyBag
          IN  /\ Logging(calls)
              /\ inflight' = (inflight (-) SetToBag({call})) (+) calls
    /\ UNCHANGED <<documents, audits>>

\* The insert of Audit.create reaches the database.
AuditCreate(p) ==
    /\ p.op = "insert"
    /\ audits' = Append(audits, p.entry)
    /\ inflight' = inflight (-) SetToBag({p})
    /\ UNCHANGED documents

\* GET /api/audits/my
GetMyAudits(walletAddress) ==
    /\ \E answer \in getMyAudits(walletAddress) : Len(answer) <= AuditLimit
    /\ UNCHANGED <<documents, inflight, audits>>

\* The transactions the client sends for the documents of the index, from
\* any connected account: registerDocument with the hash and the CID an
\* upload returned, updateDocument with that hash and a CID prepare-version
\* returned, grantAccess and revokeAccess with that hash and the address
\* typed in.  A document without documentHash gets none.
IndexedHashes == {documents[i].documentHash : i \in DOMAIN documents} \ {NullHash}

PinnedCids == {addFile(f, "pinned", 1) : f \in Files}

ClientRegisterOutcomes ==
    {registerDocument(s, documents[i].documentHash, documents[i].versions[1].ipfsHash) :
        s \in Senders, i \in {j \in DOMAIN documents : documents[j].documentHash # NullHash}}

ClientUpdateOutcomes ==
    {updateDocument(s, h, c) : s \in Senders, h \in IndexedHashes, c \in PreparedCids}

ClientGrantOutcomes ==
    {grantAccess(s, h, u) : s \in Senders, h \in IndexedHashes, u \in Addresses}

ClientRevokeOutcomes ==
    {revokeAccess(s, h, u) : s \in Senders, h \in IndexedHashes, u \in Addresses}

\* The CIDs a document took after its first, as the index records them.
IndexUpdates(document) ==
    [i \in 1..(Len(document.versions) - 1) |-> document.versions[i + 1].ipfsHash]

\* The CIDs a document took after its first, as the contract records them.
ChainUpdates(document) ==
    [i \in 1..(Len(_versions[document.documentHash]) - 1) |->
        _versions[document.documentHash][i + 1]]

\* The number of times a CID occurs in a history.
Occurrences(cid, history) == Cardinality({i \in DOMAIN history : history[i] = cid})

\* The version saves in flight that push a CID on a document.
Pushing(document, cid) ==
    {p \in InFlight({"save"}) :
        /\ p.write.id = document.id
        /\ p.write.push # <<>>
        /\ p.write.push[1].ipfsHash = cid}

\* The updateDocument transactions of a document whose confirm-version has
\* not been sent yet.
Unconfirmed(document, cid) ==
    Occurrences(cid, ChainUpdates(document)) >
        Occurrences(cid, IndexUpdates(document)) +
        BagCardinality([p \in Pushing(document, cid) |-> inflight[p]])

\* The confirm-version requests of the client: sent once the updateDocument
\* transaction for the new CID is mined, with the transaction's hash.
ClientConfirmVersionOutcomes ==
    UNION {{confirmVersion(document, w, c, "0xtx") :
                w \in Wallets,
                c \in {ChainUpdates(document)[i] :
                          i \in {j \in DOMAIN ChainUpdates(document) :
                                    Unconfirmed(document, ChainUpdates(document)[j])}}} :
           document \in {documents[i] : i \in {j \in DOMAIN documents :
                                                    documents[j].documentHash # NullHash}}}

-----------------------------------------------------------------------------
Init ==
    /\ users = <<>>
    /\ pending = EmptyBag
    /\ nonceCount = 0
    /\ clock = 0
    /\ issued = [a \in Wallets |-> NoneIssued]
    /\ logins = [a \in Wallets |-> <<>>]
    /\ held = [a \in Wallets |-> {}]
    /\ _docs = [h \in DocumentHashes |-> NoDocument]
    /\ _versions = [h \in DocumentHashes |-> <<>>]
    /\ _access = [h \in DocumentHashes |-> [u \in Addresses |-> FALSE]]
    /\ blocks = 0
    /\ transactions = 0
    /\ lastAccessCall = [h \in DocumentHashes |-> [u \in Addresses |-> NoAccessCall]]
    /\ documents = <<>>
    /\ inflight = EmptyBag
    /\ audits = <<>>

\* The requests of the authentication server.
Next ==
    \/ \E outcome \in NonceOutcomes : NonceRequest(outcome) /\ UNCHANGED <<chainVars, indexVars>>
    \/ \E r \in BagToSet(pending) :
          nonceCount < MaxNonce /\ NonceBuild(r) /\ UNCHANGED <<chainVars, indexVars>>
    \/ \E w \in BagToSet(pending) : NonceCreate(w) /\ UNCHANGED <<chainVars, indexVars>>
    \/ \E r \in BagToSet(pending) : NonceAnswer(r) /\ UNCHANGED <<chainVars, indexVars>>
    \/ \E outcome \in VerifyOutcomes : VerifyRequest(outcome) /\ UNCHANGED <<chainVars, indexVars>>
    \/ \E r \in BagToSet(pending) : \E now \in Now :
          nonceCount < MaxNonce /\ VerifyRotate(r, now) /\ UNCHANGED <<chainVars, indexVars>>
    \/ \E w \in BagToSet(pending) : VerifySave(w) /\ UNCHANGED <<chainVars, indexVars>>
    \/ \E outcome \in RequireAuthOutcomes : RequireAuth(outcome) /\ UNCHANGED <<chainVars, indexVars>>

\* The transactions sent to the contract.
ChainNext ==
    \/ \E outcome \in RegisterOutcomes : RegisterDocument(outcome) /\ UNCHANGED <<serverVars, indexVars>>
    \/ \E outcome \in UpdateOutcomes : UpdateDocument(outcome) /\ UNCHANGED <<serverVars, indexVars>>
    \/ \E outcome \in GrantOutcomes : GrantAccess(outcome) /\ UNCHANGED <<serverVars, indexVars>>
    \/ \E outcome \in RevokeOutcomes : RevokeAccess(outcome) /\ UNCHANGED <<serverVars, indexVars>>

\* The authentication server, the contract storage left as deployed.
Spec == Init /\ [][Next]_vars

\* The wallet that registers in LoginSpec.
LoginWallet == <<"a", "B">>

\* The requests of the authentication server when one wallet only asks for
\* challenges, its clients logging in over and over and racing each other;
\* the other wallet signs, and is asked about, without ever registering.
LoginNext ==
    \/ \E outcome \in NonceOutcomes :
          /\ outcome.address \in {<<>>, LoginWallet}
          /\ NonceRequest(outcome)
          /\ UNCHANGED <<chainVars, indexVars>>
    \/ \E r \in BagToSet(pending) :
          nonceCount < MaxLoginNonce /\ NonceBuild(r) /\ UNCHANGED <<chainVars, indexVars>>
    \/ \E w \in BagToSet(pending) : NonceCreate(w) /\ UNCHANGED <<chainVars, indexVars>>
    \/ \E r \in BagToSet(pending) : NonceAnswer(r) /\ UNCHANGED <<chainVars, indexVars>>
    \/ \E outcome \in VerifyOutcomes : VerifyRequest(outcome) /\ UNCHANGED <<chainVars, indexVars>>
    \/ \E r \in BagToSet(pending) : \E now \in Now :
          nonceCount < MaxLoginNonce /\ VerifyRotate(r, now) /\ UNCHANGED <<chainVars, indexVars>>
    \/ \E w \in BagToSet(pending) : VerifySave(w) /\ UNCHANGED <<chainVars, indexVars>>
    \/ \E outcome \in RequireAuthOutcomes : RequireAuth(outcome) /\ UNCHANGED <<chainVars, indexVars>>

\* The authentication server under the logins of one wallet.
LoginSpec == Init /\ [][LoginNext]_vars

\* The contract, the server's collection left empty.
ChainSpec == Init /\ [][ChainNext]_vars

\* Reads of the index against the registry: uploads and views,
\* with the registrations, grants and revocations the clients send to the
\* contract.
AccessNext ==
    \/ \E answer \in UploadOutcomes : Upload(answer) /\ UNCHANGED <<serverVars, chainVars>>
    \/ \E answer \in UploadUnhashedOutcomes : Upload(answer) /\ UNCHANGED <<serverVars, chainVars>>
    \/ \E answer \in GetDocumentOutcomes : GetDocumentRequest(answer) /\ UNCHANGED <<serverVars, chainVars>>
    \/ \E answer \in GetVersionsOutcomes : GetVersionsRequest(answer) /\ UNCHANGED <<serverVars, chainVars>>
    \/ \E call \in BagToSet(inflight) : \E rpc \in RpcOutcomes : Authorized(call, rpc) /\ UNCHANGED <<serverVars, chainVars>>
    \/ \E p \in BagToSet(inflight) : AuditCreate(p) /\ UNCHANGED <<serverVars, chainVars>>
    \/ \E outcome \in ClientRegisterOutcomes : transactions < MaxClientTransactions /\ RegisterDocument(outcome) /\ UNCHANGED <<serverVars, indexVars>>
    \/ \E outcome \in ClientGrantOutcomes : transactions < MaxClientTransactions /\ GrantAccess(outcome) /\ UNCHANGED <<serverVars, indexVars>>
    \/ \E outcome \in ClientRevokeOutcomes : transactions < MaxClientTransactions /\ RevokeAccess(outcome) /\ UNCHANGED <<serverVars, indexVars>>

AccessSpec == Init /\ [][AccessNext]_vars

\* The three-step version flow: prepare-version, updateDocument on chain,
\* confirm-version, after upload and registration.
VersionNext ==
    \/ \E answer \in UploadOutcomes : Upload(answer) /\ UNCHANGED <<serverVars, chainVars>>
    \/ \E answer \in PrepareVersionOutcomes : PrepareVersion(answer) /\ UNCHANGED <<serverVars, chainVars>>
    \/ \E call \in BagToSet(inflight) : \E ipfs \in IpfsOutcomes : \E now \in DateNow : Pinned(call, ipfs, now) /\ UNCHANGED <<serverVars, chainVars>>
    \/ \E answer \in ClientConfirmVersionOutcomes : ConfirmVersionRequest(answer) /\ UNCHANGED <<serverVars, chainVars>>
    \/ \E p \in BagToSet(inflight) : Save(p) /\ UNCHANGED <<serverVars, chainVars>>
    \/ \E outcome \in ClientRegisterOutcomes : transactions < MaxClientTransactions /\ RegisterDocument(outcome) /\ UNCHANGED <<serverVars, indexVars>>
    \/ \E outcome \in ClientUpdateOutcomes : transactions < MaxClientTransactions /\ UpdateDocument(outcome) /\ UNCHANGED <<serverVars, indexVars>>

VersionSpec == Init /\ [][VersionNext]_vars

\* The writes of the index: every route that creates or changes a document,
\* the registry left as deployed.
IndexNext ==
    \/ \E answer \in UploadOutcomes : Upload(answer) /\ UNCHANGED <<serverVars, chainVars>>
    \/ \E answer \in UploadUnhashedOutcomes : Upload(answer) /\ UNCHANGED <<serverVars, chainVars>>
    \/ \E answer \in ConfirmOutcomes : ConfirmRequest(answer) /\ UNCHANGED <<serverVars, chainVars>>
    \/ \E answer \in PrepareVersionOutcomes : PrepareVersion(answer) /\ UNCHANGED <<serverVars, chainVars>>
    \/ \E answer \in ConfirmVersionOutcomes : ConfirmVersionRequest(answer) /\ UNCHANGED <<serverVars, chainVars>>
    \/ \E answer \in UpdateRequestOutcomes : UpdateRequest(answer) /\ UNCHANGED <<serverVars, chainVars>>
    \/ \E call \in BagToSet(inflight) : \E ipfs \in IpfsOutcomes : \E now \in DateNow : Pinned(call, ipfs, now) /\ UNCHANGED <<serverVars, chainVars>>
    \/ \E p \in BagToSet(inflight) : Save(p) /\ UNCHANGED <<serverVars, chainVars>>

IndexSpec == Init /\ [][IndexNext]_vars

\* The audit trail: the routes that log, the inserts of the entries and
\* GET /api/audits/my, the registry left as deployed.
AuditNext ==
    \/ \E answer \in UploadOutcomes : Upload(answer) /\ UNCHANGED <<serverVars, chainVars>>
    \/ \E answer \in UploadUnhashedOutcomes : Upload(answer) /\ UNCHANGED <<serverVars, chainVars>>
    \/ \E answer \in ConfirmVersionOutcomes : ConfirmVersionRequest(answer) /\ UNCHANGED <<serverVars, chainVars>>
    \/ \E p \in BagToSet(inflight) : Save(p) /\ UNCHANGED <<serverVars, chainVars>>
    \/ \E answer \in GetDocumentOutcomes : GetDocumentRequest(answer) /\ UNCHANGED <<serverVars, chainVars>>
    \/ \E call \in BagToSet(inflight) : \E rpc \in RpcOutcomes : Authorized(call, rpc) /\ UNCHANGED <<serverVars, chainVars>>
    \/ \E p \in BagToSet(inflight) : AuditCreate(p) /\ UNCHANGED <<serverVars, chainVars>>
    \/ \E w \in Wallets : GetMyAudits(w) /\ UNCHANGED <<serverVars, chainVars>>

AuditSpec == Init /\ [][AuditNext]_vars

-----------------------------------------------------------------------------
(* Vocabulary of the properties *)

Registered(address) == findOne(address) # 0

Identity(address) == users[findOne(address)]

\* The spellings a client can use for an address.
Spellings(address) == {raw \in RawAddresses : raw # <<>> /\ Checksummed[raw] = address}

\* The signatures a request can carry in its signature field or header.
Presented == Signatures \ {NoSig}

\* The signature the latest successful verification of the address accepted.
Session(address) == logins[address][Len(logins[address])]

LoggedIn(address) == logins[address] # <<>>

-----------------------------------------------------------------------------
\* C1 (as amended): when a challenge has been returned for A and no rotation
\* of A's nonce has been stored since the server read the nonce it carries,
\* POST /verify accepts A's signature over it, in every spelling of A, and
\* calls rotateNonce with that very signature; once saved it is the stored
\* sessionSignature, and requireAuth(A, signature) is authorized for as long
\* as no later successful verify for A has stored another one.
LoginCompleteness ==
    \A a \in Wallets :
        /\ (issued[a].challenge # NoChallenge /\ issued[a].read = Len(logins[a])) =>
              \A f \in Forms : \A raw \in Spellings(a) :
                 LET signature == Sign(a, issued[a].challenge, f)
                     outcome == verify(raw, signature)
                 IN  /\ outcome.status = 200
                     /\ outcome.write.op = "rotate"
                     /\ outcome.write.id = findOne(a)
                     /\ outcome.write.sessionSignature = signature
        /\ LoggedIn(a) =>
              /\ Identity(a).sessionSignature = Session(a)
              /\ \A raw \in Spellings(a) : requireAuth(raw, Session(a)) = Authorize(a)

\* C1 witness: a login with a signature over the challenge returned last has
\* completed and its signature passes the gate, while for the other address a
\* challenge has been returned that verify is ready to accept.
LoginCompleted ==
    \E a \in Wallets : \E b \in Wallets \ {a} : \E f \in Forms :
        /\ LoggedIn(a)
        /\ issued[a].challenge = Session(a).msg
        /\ issued[a].rotated
        /\ Identity(a).sessionSignature = Session(a)
        /\ requireAuth(a, Session(a)).next
        /\ issued[b].challenge # NoChallenge
        /\ issued[b].read = Len(logins[b])
        /\ verify(b, Sign(b, issued[b].challenge, f)).write.op = "rotate"

\* C1 as stated: every signature a successful verify ever accepted for A is
\* authorized by requireAuth in every later state.
LoginAuthorizedForever ==
    \A a \in Wallets : \A i \in DOMAIN logins[a] : requireAuth(a, logins[a][i]).next

-----------------------------------------------------------------------------
\* C2: a step that is not the save of a successful verify for A (a challenge
\* request, a failed verify, a requireAuth call, any request for another
\* address, another reading of the clock) leaves the signature A last logged
\* in with authorized by requireAuth.
SessionPersistence ==
    [][\A a \in Wallets :
          (LoggedIn(a) /\ logins'[a] = logins[a]) =>
              (\A raw \in Spellings(a) : requireAuth(raw, Session(a)) = Authorize(a))']_vars

\* C2 witness: A logged in; later another address registered and a
\* challenge was requested for A again; A's session still passes the gate.
SessionOutlivesOtherRequests ==
    \E a \in Wallets : \E b \in Wallets \ {a} :
        /\ LoggedIn(a)
        /\ Registered(b) /\ Identity(b).nonce > Identity(a).nonce
        /\ issued[a].challenge # NoChallenge
        /\ issued[a].read = Len(logins[a])
        /\ requireAuth(a, Session(a)).next

-----------------------------------------------------------------------------
\* C3: after two successful logins for A, the second with another signature
\* than the first, the first signature equals neither the stored
\* sessionSignature nor a signature over the challenge of the current nonce,
\* requireAuth denies it with 401 Unauthorized, and it lets the second through.
SessionInvalidation ==
    \A a \in Wallets : \A i \in DOMAIN logins[a] :
        (i < Len(logins[a]) /\ logins[a][i] # Session(a)) =>
            LET s1 == logins[a][i]
                s2 == Session(a)
            IN  /\ s1 # Identity(a).sessionSignature
                /\ verifyMessage(buildChallenge(a, Identity(a).nonce), s1) # a
                /\ requireAuth(a, s1) = Response("requireAuth", 401, ErrUnauthorized)
                /\ requireAuth(a, s2) = Authorize(a)

\* C3 witness: an address has logged in twice, with two signatures.
LoggedInTwice ==
    \E a \in Wallets :
        /\ Len(logins[a]) = 2
        /\ logins[a][1] # logins[a][2]
        /\ requireAuth(a, logins[a][1]).error = ErrUnauthorized

-----------------------------------------------------------------------------
\* C4 (as amended): two consecutive answers of POST /nonce for A whose
\* nonces the server read with no rotation of A's nonce stored between the
\* two reads carry the same nonce and the same message, the request that
\* creates the Identity included.
IdempotentIssuance ==
    [][\A a \in Wallets :
          ( /\ issued[a].challenge # NoChallenge
            /\ issued'[a].challenge # NoChallenge
            /\ issued'[a].read = issued[a].read ) =>
              /\ issued'[a].challenge.nonce = issued[a].challenge.nonce
              /\ issued'[a].challenge = issued[a].challenge]_vars

\* C4 witness: a challenge was returned twice in a row for an Identity that
\* the first of the two requests created, and twice in a row for one that
\* existed (and had logged in) before the server read its nonce for either.
IssuedTwice ==
    /\ \E a \in Wallets : issued[a].again /\ ~LoggedIn(a)
    /\ \E a \in Wallets :
          issued[a].again /\ issued[a].read >= 1 /\ issued[a].read = Len(logins[a])

\* C4 as stated: two consecutive answers of POST /nonce for A with no
\* rotation of A's nonce stored between them carry the same nonce and the
\* same message.
SameNonceBetweenVerifications ==
    [][\A a \in Wallets :
          ( /\ issued[a].challenge # NoChallenge
            /\ issued'[a].challenge # NoChallenge
            /\ ~issued[a].rotated ) =>
              /\ issued'[a].challenge.nonce = issued[a].challenge.nonce
              /\ issued'[a].challenge = issued[a].challenge]_vars

-----------------------------------------------------------------------------
\* C5: the nonce rotateNonce assigns, and the nonce stored once it is saved,
\* differ from the nonce whose challenge the accepted signature signs.
NonceFreshness ==
    /\ \A w \in BagToSet(pending) :
          w.op = "save" =>
              /\ verifyMessage(buildChallenge(w.sessionSignature.key, w.nonce),
                               w.sessionSignature) # w.sessionSignature.key
              /\ w.nonce # w.sessionSignature.msg.nonce
    /\ \A a \in Wallets :
          LoggedIn(a) => Identity(a).nonce # Session(a).msg.nonce

\* C5 witness: a verification succeeded and its rotation is stored.
Rotated ==
    \E a \in Wallets :
        /\ LoggedIn(a)
        /\ Identity(a).sessionSignature = Session(a)
        /\ Identity(a).nonce > Session(a).msg.nonce

-----------------------------------------------------------------------------
\* C6: no two successful verifications of an address were checked against
\* the same nonce (so no signature completes a login twice, and none is
\* accepted against a nonce already rotated away).
SingleUseOfChallenge ==
    \A a \in Wallets : \A i, j \in DOMAIN logins[a] :
        i < j => logins[a][i].msg.nonce # logins[a][j].msg.nonce

-----------------------------------------------------------------------------
\* C7: the collection never holds two documents whose addresses are the same
\* up to letter case, a document is never removed, and its address never
\* changes.
OneIdentityPerAddress ==
    [][/\ \A i, j \in DOMAIN users' :
              i # j => toLowerCase(users'[i].address) # toLowerCase(users'[j].address)
       /\ \A i \in DOMAIN users :
              i \in DOMAIN users' /\ users'[i].address = users[i].address]_vars

\* C7 witness: two first-time challenge requests for one address, spelled
\* differently or not, both found no document; the insert of one is stored
\* and the insert of the other is about to be refused.
ConcurrentFirstRequests ==
    \E w \in BagToSet(pending) :
        /\ w.op = "create"
        /\ DuplicateKey(w.doc)
        /\ Cardinality(Spellings(w.doc.address)) > 1

-----------------------------------------------------------------------------
\* C8: for a registered Identity, whatever the spelling of its address,
\* requireAuth calls next() exactly when the signature presented is the
\* stored non-null sessionSignature or recovers, over the challenge of the
\* current nonce, to the address; otherwise, unparseable signatures included,
\* it answers 401 Unauthorized and does not call next().
GateDecision ==
    \A a \in Wallets : Registered(a) =>
        \A raw \in Spellings(a) : \A signature \in Presented :
            LET user == Identity(a)
                primary == user.sessionSignature # NullSig /\ signature = user.sessionSignature
                fallback == /\ signature.kind = "sig"
                            /\ verifyMessage(buildChallenge(a, user.nonce), signature) = a
            IN  requireAuth(raw, signature) =
                    IF primary \/ fallback
                    THEN Authorize(a)
                    ELSE Response("requireAuth", 401, ErrUnauthorized)

\* C8 witness: an Identity with a stored session for which the gate lets one
\* signature through on the primary check and another on the fallback, and
\* denies an unparseable one and one by another signer.
GateDecides ==
    \E a \in Wallets : \E s \in Presented : \E t \in Presented :
        /\ LoggedIn(a)
        /\ requireAuth(a, Session(a)).next
        /\ s # Session(a) /\ requireAuth(a, s).next
        /\ t.kind = "sig" /\ t.key # a /\ requireAuth(a, t).error = ErrUnauthorized
        /\ requireAuth(a, BadSig).error = ErrUnauthorized

-----------------------------------------------------------------------------
\* C9: for an address without an Identity, in any valid spelling and with
\* any signature presented, requireAuth answers 401 NotRegistered and
\* POST /verify 404 NotRegistered, a text other than that of Unauthorized,
\* and such a request leaves the collection and the writes in flight as they
\* were.
NotRegisteredOutcome ==
    /\ [](\A raw \in RawAddresses :
            (raw # <<>> /\ Checksummed[raw] # Throws /\ ~Registered(Checksummed[raw])) =>
                \A signature \in Presented :
                    /\ requireAuth(raw, signature) =
                           Response("requireAuth", 401, ErrNotRegistered)
                    /\ verify(raw, signature) = Response("verify", 404, ErrNotRegistered)
                    /\ ErrNotRegistered # ErrUnauthorized)
    /\ [][(users' = users /\ pending' = pending) \/
             \A outcome \in VerifyOutcomes \cup RequireAuthOutcomes :
                ~(outcome.error = ErrNotRegistered
                    /\ (VerifyRequest(outcome) \/ RequireAuth(outcome)))]_vars

\* C9 witness: signatures exist, one address is registered, and a request
\* for the other, which never asked for a challenge, is answered NotRegistered.
UnknownAddressAsked ==
    \E a \in Wallets : \E b \in Wallets :
        /\ Registered(b)
        /\ ~Registered(a)
        /\ \A w \in BagToSet(pending) : w.op = "create" => w.doc.address # a
        /\ \E signature \in Presented :
              /\ signature.kind = "sig"
              /\ requireAuth(a, signature).error = ErrNotRegistered
              /\ verify(a, signature).error = ErrNotRegistered

-----------------------------------------------------------------------------
\* C10: for a registered address POST /verify answers 401 MalformedSignature
\* when recovery throws and 401 with another text (Unauthorized) when the
\* signature recovers to another address; neither request issues a write, and
\* it leaves every document, its nonce, sessionSignature and lastSeen
\* included, as it was.
MalformedOrMismatch ==
    /\ [](\A a \in Wallets : Registered(a) =>
            \A raw \in Spellings(a) : \A signature \in Presented :
                LET recovered == verifyMessage(buildChallenge(a, Identity(a).nonce), signature)
                IN  /\ recovered = Throws =>
                          verify(raw, signature) = Response("verify", 401, ErrMalformed)
                    /\ (recovered # Throws /\ recovered # a) =>
                          verify(raw, signature) = Response("verify", 401, ErrMismatch)
                    /\ ErrMalformed # ErrMismatch)
    /\ [][(users' = users /\ pending' = pending) \/
             \A outcome \in VerifyOutcomes :
                ~(outcome.error \in {ErrMalformed, ErrMismatch} /\ VerifyRequest(outcome))]_vars

\* C10 witness: an Identity with a stored session, for which one signature
\* is answered MalformedSignature and another, by another signer over its
\* current challenge, Unauthorized.
BothFailuresAnswered ==
    \E a \in Wallets : \E signature \in Presented :
        /\ LoggedIn(a)
        /\ verify(a, BadSig).error = ErrMalformed
        /\ signature.kind = "sig"
        /\ signature.key # a
        /\ signature.msg = buildChallenge(a, Identity(a).nonce)
        /\ verify(a, signature).error = ErrMismatch

-----------------------------------------------------------------------------
\* C11: two spellings of one address (equal up to letter case) that both
\* pass getAddress get the same answer from POST /nonce, and for every
\* signature the same answer from POST /verify and from requireAuth; the
\* answers name the same address and the same document to write.
CaseInsensitiveIdentity ==
    \A raw1 \in RawAddresses : \A raw2 \in RawAddresses :
        ( /\ raw1 # <<>>
          /\ toLowerCase(raw1) = toLowerCase(raw2)
          /\ Checksummed[raw1] # Throws
          /\ Checksummed[raw2] # Throws ) =>
            /\ nonce(raw1) = nonce(raw2)
            /\ \A signature \in Signatures :
                  /\ verify(raw1, signature) = verify(raw2, signature)
                  /\ requireAuth(raw1, signature) = requireAuth(raw2, signature)

\* C11 witness: for a logged-in address spelled in lower case and in
\* checksummed form, the session passes the gate under both spellings and a
\* signature over the current challenge is accepted under both.
SpelledTwoWays ==
    \E raw1 \in RawAddresses : \E raw2 \in RawAddresses : \E signature \in Presented :
        /\ raw1 # raw2
        /\ raw1 # <<>>
        /\ toLowerCase(raw1) = toLowerCase(raw2)
        /\ Checksummed[raw1] \in Wallets
        /\ Checksummed[raw2] \in Wallets
        /\ LoggedIn(Checksummed[raw1])
        /\ requireAuth(raw1, Session(Checksummed[raw1])).next
        /\ requireAuth(raw2, Session(Checksummed[raw1])).next
        /\ verify(raw1, signature).status = 200
        /\ verify(raw2, signature).status = 200
        /\ nonce(raw1).status = 200

-----------------------------------------------------------------------------
\* C12: a challenge request for an existing Identity, a verify that fails
\* (malformed, mismatched, unregistered, invalid) and every requireAuth call
\* (let through by the primary check, by the fallback, or denied) issue no
\* write; the only write that touches an existing document is the save of a
\* rotateNonce called by a successful verify with the signature it accepted,
\* and a step changes the nonce, sessionSignature or lastSeen of a document
\* only by applying such a save.
RotateOnlyMutationPath ==
    /\ [](/\ \A raw \in RawAddresses :
              (raw # <<>> /\ Checksummed[raw] # Throws /\ Registered(Checksummed[raw])) =>
                  nonce(raw).write = NoWrite
          /\ \A outcome \in VerifyOutcomes :
              outcome.status # 200 => outcome.write = NoWrite
          /\ \A outcome \in RequireAuthOutcomes : outcome.write = NoWrite
          /\ \A w \in BagToSet(pending) :
              w.op = "save" =>
                  /\ w.id \in DOMAIN users
                  /\ w.sessionSignature.kind = "sig"
                  /\ w.sessionSignature.key = users[w.id].address
                  /\ w.sessionSignature.msg.wallet = users[w.id].address)
    /\ [][\A i \in DOMAIN users :
             users'[i] # users[i] =>
                 \E w \in BagToSet(pending) :
                     /\ w.op = "save"
                     /\ w.id = i
                     /\ users'[i] = Saved(users[i], w)
                     /\ pending' = pending (-) SetToBag({w})]_vars

\* C12 witness: an Identity with a stored session whose nonce a challenge
\* request returns as it is, whose session the primary check lets through, a
\* signature over its current challenge the fallback lets through, and for
\* which one verify is refused as malformed and another as mismatched; the
\* save of a login in flight for it read the clock in the millisecond of the
\* lastSeen it had loaded, and will leave the later lastSeen that a login
\* racing with it has stored since.
FieldsLeftAlone ==
    \E a \in Wallets : \E s \in Presented : \E t \in Presented :
        /\ LoggedIn(a)
        /\ \E w \in BagToSet(pending) :
              /\ w.op = "save"
              /\ w.id = findOne(a)
              /\ "lastSeen" \notin w.modified
              /\ w.lastSeen < Identity(a).lastSeen
        /\ nonce(a) = Challenge(a, Identity(a).nonce)
        /\ requireAuth(a, Session(a)).next
        /\ s # Session(a) /\ requireAuth(a, s).next
        /\ requireAuth(a, t).error = ErrUnauthorized
        /\ verify(a, t).error = ErrMismatch
        /\ verify(a, BadSig).error = ErrMalformed

-----------------------------------------------------------------------------
\* C13: a signature by A over the challenge of a nonce N that is no longer
\* A's current nonce is let through by requireAuth exactly when it is the
\* stored sessionSignature; and a signature that passes only the fallback
\* stops passing it in the very step that replaces the nonce, after which it
\* is let through only if that step stored it as sessionSignature.
FallbackTimeLimited ==
    /\ [](\A a \in Wallets : Registered(a) =>
            \A signature \in Presented :
                ( /\ signature.kind = "sig"
                  /\ signature.key = a
                  /\ signature.msg.wallet = a
                  /\ signature.msg.nonce # Identity(a).nonce ) =>
                    /\ verifyMessage(buildChallenge(a, Identity(a).nonce), signature) # a
                    /\ requireAuth(a, signature).next <=>
                           (signature = Identity(a).sessionSignature))
    /\ [][users' = users \/
           \A a \in Wallets : \A signature \in Presented :
             ( /\ Registered(a)
               /\ signature # Identity(a).sessionSignature
               /\ requireAuth(a, signature).next
               /\ Identity(a)'.nonce # Identity(a).nonce ) =>
                 /\ (verifyMessage(buildChallenge(a, Identity(a).nonce), signature) # a)'
                 /\ (requireAuth(a, signature).next <=>
                        (signature = Identity(a).sessionSignature))']_vars

\* C13 witness: A's nonce was rotated by a login; a signature by A over the
\* challenge of the replaced nonce, in another encoding than the one stored,
\* is denied, while the stored one over the same challenge is let through.
FallbackExpired ==
    \E a \in Wallets : \E signature \in Presented :
        /\ LoggedIn(a)
        /\ Identity(a).sessionSignature = Session(a)
        /\ signature.kind = "sig"
        /\ signature.key = a
        /\ signature.msg = Session(a).msg
        /\ signature # Session(a)
        /\ signature.msg.nonce # Identity(a).nonce
        /\ requireAuth(a, signature).error = ErrUnauthorized
        /\ requireAuth(a, Session(a)).next

-----------------------------------------------------------------------------
\* C14: the stored sessionSignature is at every moment null or the signature
\* of the rotateNonce save that landed last, a signature some verify request
\* submitted and accepted; once no save for the address is in flight,
\* requireAuth lets that signature through and denies with 401 Unauthorized
\* every other signature an earlier save had stored, those of attempts that
\* raced with the last one included.
RacingLogins ==
    \A a \in Wallets : Registered(a) =>
        /\ ~LoggedIn(a) => Identity(a).sessionSignature = NullSig
        /\ LoggedIn(a) =>
              /\ Identity(a).sessionSignature = Session(a)
              /\ Session(a) \in Presented
              /\ Session(a).kind = "sig" /\ Session(a).key = a
              /\ (\A w \in BagToSet(pending) : w.op = "save" => w.id # findOne(a)) =>
                    /\ requireAuth(a, Session(a)) = Authorize(a)
                    /\ \A i \in DOMAIN logins[a] :
                          logins[a][i] # Session(a) =>
                              requireAuth(a, logins[a][i]) =
                                  Response("requireAuth", 401, ErrUnauthorized)

\* C14 witness: two verify requests for one address, with two signatures
\* over the same challenge, both passed their checks before either save; both
\* saves have landed, the later one is stored and let through, the earlier
\* one is denied.
BothWritesLanded ==
    \E a \in Wallets :
        /\ Len(logins[a]) = 2
        /\ logins[a][1] # logins[a][2]
        /\ logins[a][1].msg = logins[a][2].msg
        /\ pending = EmptyBag
        /\ Identity(a).sessionSignature = logins[a][2]
        /\ requireAuth(a, logins[a][2]).next
        /\ requireAuth(a, logins[a][1]).error = ErrUnauthorized

-----------------------------------------------------------------------------
(* The lifecycle of an address *)

Phase(address) ==
    IF ~Registered(address) THEN "Unregistered"
    ELSE IF Identity(address).sessionSignature = NullSig THEN "Pending"
    ELSE "Authenticated"

\* The phases one step can lead to.
Forward(phase) ==
    CASE phase = "Unregistered" -> {"Unregistered", "Pending"}
      [] phase = "Pending" -> {"Pending", "Authenticated"}
      [] OTHER -> {"Authenticated"}

\* C15: in every step each address stays in its phase or moves one phase
\* forward (Unregistered -> Pending -> Authenticated); a document inserted
\* is Pending (nonce set, sessionSignature null); no step removes a document,
\* and no step turns a set sessionSignature back to null.
ForwardOnlyLifecycle ==
    [][/\ \A a \in Wallets : Phase(a)' \in Forward(Phase(a))
       /\ Len(users') >= Len(users)
       /\ \A i \in DOMAIN users :
             /\ users'[i].address = users[i].address
             /\ users[i].sessionSignature # NullSig => users'[i].sessionSignature # NullSig
       /\ \A i \in DOMAIN users' \ DOMAIN users :
             /\ users'[i].sessionSignature = NullSig
             /\ users'[i].nonce \in 1..nonceCount]_vars

\* C15 witness: one address has gone through all three phases and logged in
\* again since, still Authenticated, while the other is Unregistered.
LifecycleCompleted ==
    \E a \in Wallets : \E b \in Wallets :
        /\ Phase(a) = "Authenticated"
        /\ Len(logins[a]) = 2
        /\ Phase(b) = "Unregistered"
        /\ pending = EmptyBag

-----------------------------------------------------------------------------
\* C16: for every submitted address that ethers.getAddress rejects (not
\* hex, or mixed case with a wrong checksum), POST /nonce and, for every
\* signature presented, POST /verify answer 400 InvalidAddress, and
\* requireAuth answers 401 without calling next(); an absent address is
\* refused as well (400 / 401, a required field is missing); none of these
\* requests issues a write, and the step leaves the collection and the
\* writes in flight as they were.
InvalidAddressOutcome ==
    /\ [](\A raw \in RawAddresses : Checksummed[raw] = Throws =>
            /\ nonce(raw) = Response("nonce", 400,
                    IF raw = <<>> THEN ErrMissingAddress ELSE ErrInvalidAddress)
            /\ \A signature \in Signatures :
                  /\ verify(raw, signature) = Response("verify", 400,
                        IF raw = <<>> \/ signature = NoSig
                        THEN ErrMissingBoth ELSE ErrInvalidAddress)
                  /\ requireAuth(raw, signature) = Response("requireAuth", 401,
                        IF raw = <<>> \/ signature = NoSig
                        THEN ErrMissingHeaders ELSE ErrInvalidWallet)
                  /\ ~requireAuth(raw, signature).next
                  /\ requireAuth(raw, signature).write = NoWrite)
    /\ [][(users' = users /\ pending' = pending) \/
             \A outcome \in NonceOutcomes \cup VerifyOutcomes \cup RequireAuthOutcomes :
                ~(outcome.error \in {ErrInvalidAddress, ErrInvalidWallet,
                                     ErrMissingAddress, ErrMissingBoth, ErrMissingHeaders}
                    /\ (NonceRequest(outcome) \/ VerifyRequest(outcome)
                           \/ RequireAuth(outcome)))]_vars

\* C16 witness: an address holds a session; under a wrongly checksummed
\* spelling of it the challenge request and a verify with a signature over
\* its current challenge are answered InvalidAddress and its own session is
\* denied by requireAuth, and so is a non-hex address.
InvalidAddressRefused ==
    \E a \in Wallets : \E raw \in RawAddresses : \E f \in Forms :
        /\ LoggedIn(a)
        /\ raw # <<>>
        /\ toLowerCase(raw) = toLowerCase(a)
        /\ Checksummed[raw] = Throws
        /\ nonce(raw).error = ErrInvalidAddress
        /\ verify(raw, Sign(a, buildChallenge(a, Identity(a).nonce), f)).error
               = ErrInvalidAddress
        /\ requireAuth(raw, Session(a)).error = ErrInvalidWallet
        /\ nonce(<<"g", "g">>).error = ErrInvalidAddress

-----------------------------------------------------------------------------
(* Vocabulary of the contract properties *)

RegisteredDocuments == {h \in DocumentHashes : _docs[h].exists}

\* What the contract stores about one document.
Stored(h) == <<_docs[h], _versions[h], _access[h]>>

\* The committed writes open to the owner of a registered document.
OwnerWrites(h) ==
    {updateDocument(_docs[h].owner, h, c) : c \in Cids}
        \cup {grantAccess(_docs[h].owner, h, u) : u \in Addresses}
        \cup {revokeAccess(_docs[h].owner, h, u) : u \in Addresses}

-----------------------------------------------------------------------------
\* C17: for a registered document, updateDocument, grantAccess and
\* revokeAccess sent by anyone but its owner revert with "Not the document
\* owner", whatever the CID or the user, with the storage as it was; and a
\* step that changes the document's metadata, CID history or access map is
\* a committed call sent by its owner.
OwnerOnlyWrites ==
    /\ [](\A h \in RegisteredDocuments : \A s \in Senders \ {_docs[h].owner} :
            /\ \A c \in Cids :
                  updateDocument(s, h, c) = Revert("updateDocument", "Not the document owner")
            /\ \A u \in Addresses :
                  /\ grantAccess(s, h, u) = Revert("grantAccess", "Not the document owner")
                  /\ revokeAccess(s, h, u) = Revert("revokeAccess", "Not the document owner"))
    /\ [][\A h \in RegisteredDocuments :
             Stored(h)' # Stored(h) =>
                 \E outcome \in OwnerWrites(h) :
                     /\ outcome.revert = ""
                     /\ outcome.event.owner = _docs[h].owner
                     /\ Stored(h)' = <<outcome.docs[h], outcome.versions[h], outcome.access[h]>>]_vars

\* C17 witness: a document updated by its owner, who granted access to the
\* other account; the calls of that account, though it has access, revert.
GranteeCannotWrite ==
    \E h \in RegisteredDocuments : \E s \in Senders :
        /\ s # _docs[h].owner
        /\ _access[h][s]
        /\ _docs[h].versionCount > 1
        /\ updateDocument(s, h, "QmB").revert = "Not the document owner"
        /\ grantAccess(s, h, s).revert = "Not the document owner"
        /\ revokeAccess(s, h, _docs[h].owner).revert = "Not the document owner"

-----------------------------------------------------------------------------
\* C18: hasAccess(d, u) is true exactly when d is registered and u is its
\* owner or the last committed grantAccess / revokeAccess for (d, u) was a
\* grant; it is false for every user of an unregistered document, and true
\* for the owner whatever was revoked.
HasAccessCharacterisation ==
    /\ \A h \in DocumentHashes : \A u \in Addresses :
          hasAccess(h, u) <=>
              /\ _docs[h].exists
              /\ (_docs[h].owner = u \/ lastAccessCall[h][u] = "grant")
    /\ \A h \in DocumentHashes \ RegisteredDocuments : \A u \in Addresses :
          /\ ~hasAccess(h, u)
          /\ lastAccessCall[h][u] = NoAccessCall
    /\ \A h \in RegisteredDocuments : hasAccess(h, _docs[h].owner)

\* C18 witness: the owner of a document has revoked the owner's own access
\* and keeps it, a user granted access has it, a user whose last call was a
\* revoke has none, and the other document is unregistered.
AccessGrantedAndRevoked ==
    \E h \in RegisteredDocuments : \E u \in Senders : \E g \in DocumentHashes :
        /\ lastAccessCall[h][_docs[h].owner] = "revoke"
        /\ hasAccess(h, _docs[h].owner)
        /\ u # _docs[h].owner
        /\ lastAccessCall[h][u] = "grant"
        /\ hasAccess(h, u)
        /\ lastAccessCall[h][ZeroAddress] = "revoke"
        /\ ~hasAccess(h, ZeroAddress)
        /\ g # ZeroHash /\ ~_docs[g].exists /\ ~hasAccess(g, u)

-----------------------------------------------------------------------------
\* C19 (as amended): registerDocument on a hash already registered reverts
\* for every sender, with "Document already registered" when the CID is not
\* empty and with "CID required" when it is, the storage as it was; and no
\* step unregisters a document or changes its owner or createdAt, or takes
\* an entry out of its CID history.
NoReRegistration ==
    /\ [](\A h \in RegisteredDocuments : \A s \in Senders : \A c \in Cids :
            registerDocument(s, h, c) =
                Revert("registerDocument",
                       IF c = "" THEN "CID required" ELSE "Document already registered"))
    /\ [][\A h \in RegisteredDocuments :
             /\ _docs'[h].exists
             /\ _docs'[h].owner = _docs[h].owner
             /\ _docs'[h].createdAt = _docs[h].createdAt
             /\ Len(_versions'[h]) >= Len(_versions[h])
             /\ SubSeq(_versions'[h], 1, Len(_versions[h])) = _versions[h]]_vars

\* C19 witness: a document registered by one account and updated since;
\* the owner and the other account both try to register its hash again, with
\* the stored CID and with another one, and all four calls revert.
RegisteredAgain ==
    \E h \in RegisteredDocuments : \E s \in Senders :
        /\ s # _docs[h].owner
        /\ _docs[h].versionCount > 1
        /\ _docs[h].updatedAt > _docs[h].createdAt
        /\ \A t \in {s, _docs[h].owner} : \A c \in Cids \ {""} :
              registerDocument(t, h, c).revert = "Document already registered"

\* C19 as stated: every registerDocument on a registered hash reverts with
\* "Document already registered".
AlreadyRegisteredForEveryCall ==
    \A h \in RegisteredDocuments : \A s \in Senders : \A c \in Cids :
        registerDocument(s, h, c).revert = "Document already registered"

-----------------------------------------------------------------------------
\* C20: registerDocument commits with versionCount 1 and a history of one
\* CID; updateDocument by the owner with a CID commits with versionCount one
\* more than before, emits that count as version and appends the CID; in
\* every state a registered document's versionCount is the length of its
\* history (what getVersionCount returns) and its cid the last entry, and a
\* hash never registered has neither; a step leaves versionCount as it is
\* or adds one.
VersionCounter ==
    /\ [](/\ \A h \in DocumentHashes :
               IF _docs[h].exists
               THEN /\ _docs[h].versionCount >= 1
                    /\ _docs[h].versionCount = Len(_versions[h])
                    /\ getVersionCount(h) = _docs[h].versionCount
                    /\ _docs[h].cid = _versions[h][Len(_versions[h])]
               ELSE /\ _docs[h] = NoDocument
                    /\ _versions[h] = <<>>
          /\ \A h \in DocumentHashes \ RegisteredDocuments :
               \A s \in Senders : \A c \in Cids :
                  LET outcome == registerDocument(s, h, c)
                  IN  outcome.revert = "" =>
                         /\ outcome.docs[h].versionCount = 1
                         /\ outcome.versions[h] = <<c>>
                         /\ outcome.docs[h].cid = c
          /\ \A h \in RegisteredDocuments : \A c \in Cids \ {""} :
                  LET outcome == updateDocument(_docs[h].owner, h, c)
                  IN  /\ outcome.revert = ""
                      /\ outcome.docs[h].versionCount = _docs[h].versionCount + 1
                      /\ outcome.event.version = outcome.docs[h].versionCount
                      /\ outcome.versions[h] = Append(_versions[h], c)
                      /\ outcome.docs[h].cid = c)
    /\ [][\A h \in DocumentHashes :
             \/ _docs'[h].versionCount = _docs[h].versionCount
             \/ /\ _docs'[h].versionCount = _docs[h].versionCount + 1
                /\ Len(_versions'[h]) = Len(_versions[h]) + 1]_vars

\* C20 witness: a document in its third version, the three CIDs not all the
\* same, next to a document in its first.
ThirdVersion ==
    \E h \in RegisteredDocuments : \E g \in RegisteredDocuments :
        /\ _docs[h].versionCount = 3
        /\ _versions[h][1] # _versions[h][3]
        /\ _docs[h].cid = _versions[h][3]
        /\ _docs[g].versionCount = 1

-----------------------------------------------------------------------------
\* C21: for a registered address, logged in or not, requireAuth lets
\* through every signature by its key over the challenge of its current
\* nonce, in every spelling of the address and without issuing a write; a
\* requireAuth step changes no document, so the same request passes again,
\* and it keeps passing across every step that leaves the nonce as it is.
FallbackWithoutLogin ==
    /\ [](\A a \in Wallets : Registered(a) =>
            \A f \in Forms : \A raw \in Spellings(a) :
                LET signature == Sign(a, buildChallenge(a, Identity(a).nonce), f)
                IN  /\ requireAuth(raw, signature) = Authorize(a)
                    /\ requireAuth(raw, signature).write = NoWrite)
    /\ [][/\ \/ (users' = users /\ pending' = pending)
             \/ ~(\E outcome \in RequireAuthOutcomes : RequireAuth(outcome))
          /\ \A a \in Wallets : \A f \in Forms :
               (Registered(a) /\ Identity(a)'.nonce = Identity(a).nonce) =>
                   requireAuth(a, Sign(a, buildChallenge(a, Identity(a).nonce), f))'
                       = Authorize(a)]_vars

\* C21 witness: an address that asked for its challenge twice and never
\* completed a login (its sessionSignature is null, no save is in flight)
\* passes the gate with a signature over that challenge, while the other
\* address has logged in since.
RidingTheFallback ==
    \E a \in Wallets : \E b \in Wallets : \E f \in Forms :
        /\ Registered(a)
        /\ ~LoggedIn(a)
        /\ Identity(a).sessionSignature = NullSig
        /\ issued[a].again
        /\ LoggedIn(b)
        /\ pending = EmptyBag
        /\ requireAuth(a, Sign(a, issued[a].challenge, f)).next

-----------------------------------------------------------------------------
\* C22: a stored sessionSignature does not recover to the address over the
\* challenge of the nonce stored with it (it signs a nonce drawn earlier), so
\* the fallback would refuse it and it is the primary comparison that lets
\* a logged-in client through.
SessionNeverMatchesChallenge ==
    \A i \in DOMAIN users :
        users[i].sessionSignature # NullSig =>
            LET user == users[i] IN
            /\ verifyMessage(buildChallenge(user.address, user.nonce),
                             user.sessionSignature) # user.address
            /\ user.sessionSignature.msg.nonce < user.nonce
            /\ requireAuth(user.address, user.sessionSignature) = Authorize(user.address)

\* C22 witness: a document whose session was stored by the later of two
\* saves that were checked against the same nonce.
SessionOverOldNonce ==
    \E a \in Wallets :
        /\ Len(logins[a]) = 2
        /\ logins[a][1].msg.nonce = logins[a][2].msg.nonce
        /\ Identity(a).sessionSignature = logins[a][2]
        /\ Identity(a).nonce > logins[a][2].msg.nonce + 1
        /\ requireAuth(a, Identity(a).sessionSignature).next

-----------------------------------------------------------------------------
\* C30: a stored non-null sessionSignature of address A is a signature by
\* A's key over buildChallenge(A, n) for a nonce n that A's document stored
\* before its current one; and whenever requireAuth lets a request for A
\* through, the signature presented was made by A's key over a challenge of
\* A's.
SessionAuthenticity ==
    /\ \A i \in DOMAIN users :
          users[i].sessionSignature # NullSig =>
              LET A == users[i].address
                  s == users[i].sessionSignature
              IN  /\ s.kind = "sig"
                  /\ s.msg.wallet = A
                  /\ s.msg.nonce \in held[A] \ {users[i].nonce}
                  /\ verifyMessage(buildChallenge(A, s.msg.nonce), s) = A
                  /\ s.key = A
    /\ \A a \in Wallets : \A raw \in Spellings(a) : \A signature \in Presented :
          requireAuth(raw, signature).next =>
              /\ signature.kind = "sig"
              /\ signature.key = a
              /\ signature.msg.wallet = a
              /\ signature.msg.nonce \in held[a]

\* C30 witness: an address on its third nonce holds a session signed by its
\* key; the other wallet's signatures over the same challenges, the current
\* one included, are refused by POST /verify and by requireAuth.
ForgedSessionRefused ==
    \E a \in Wallets : \E b \in Wallets \ {a} : \E f \in Forms :
        /\ Cardinality(held[a]) = 3
        /\ Identity(a).sessionSignature # NullSig
        /\ Identity(a).sessionSignature.key = a
        /\ requireAuth(a, Identity(a).sessionSignature).next
        /\ verify(a, Sign(b, buildChallenge(a, Identity(a).nonce), f)).error = ErrMismatch
        /\ ~requireAuth(a, Sign(b, buildChallenge(a, Identity(a).nonce), f)).next
        /\ ~requireAuth(a, Sign(b, Identity(a).sessionSignature.msg, f)).next

-----------------------------------------------------------------------------
(* Vocabulary of the claims about the document index *)

\* The documents of the index.
StoredDocuments == {documents[i] : i \in DOMAIN documents}

\* The document as findById returns it once it is soft-deleted.
Deleted(document) == [document EXCEPT !.isDeleted = TRUE]

\* The spellings of every wallet a request can carry as req.walletAddress.
Callers == UNION {Spellings(a) : a \in Wallets}

\* The wallet is the document's owner, compared without letter case.
OwnedBy(document, walletAddress) ==
    toLowerCase(document.owner) = toLowerCase(walletAddress)

\* The contract's hasAccess(documentHash, wallet); a document without
\* documentHash names nothing on chain.
OnChainAccess(document, walletAddress) ==
    /\ document.documentHash # NullHash
    /\ hasAccess(document.documentHash, AbiAddress(walletAddress))

\* The reads that await blockchainService.hasAccess.
Calls == InFlight({"hasAccess"})

\* The audit entries of a kind stored for a wallet and a document.
Entries(walletAddress, action, documentId) ==
    {i \in DOMAIN audits :
        /\ audits[i].walletAddress = toLowerCase(walletAddress)
        /\ audits[i].action = action
        /\ audits[i].documentId = documentId}

-----------------------------------------------------------------------------
\* C23: GET /:id and GET /:id/versions answer 404 to every caller for an id
\* that names no document and for a soft-deleted document; for a live
\* document they serve its owner (compared without letter case) at once and
\* ask the contract for every other caller, returning nothing before it has
\* answered; the document loaded is then returned only if the contract's
\* hasAccess accepts the wallet when it is read, and 403 without data is
\* answered otherwise; with the RPC answering, every wallet with access is
\* served.
AccessCheckedReads ==
    /\ \A id \in DocumentIds : \A w \in Callers :
          LET document == findById(id)
              answers == {getDocument(document, w), getVersions(document, w)}
              gone == {getDocument(Deleted(document), w),
                       getVersions(Deleted(document), w)}
          IN  /\ id \notin DOMAIN documents =>
                    \A answer \in answers :
                        /\ answer.status = 404
                        /\ answer.document = NotFound
                        /\ answer.write = NoSave
              /\ id \in DOMAIN documents =>
                    /\ \A answer \in gone :
                          /\ answer.status = 404
                          /\ answer.document = NotFound
                          /\ answer.write = NoSave
                    /\ \A answer \in answers :
                          IF OwnedBy(document, w)
                          THEN /\ answer.status = 200
                               /\ answer.document = document
                               /\ answer.write = NoSave
                          ELSE /\ answer.status = 0
                               /\ answer.document = NotFound
                               /\ answer.write = [op |-> "hasAccess", document |-> document]
    /\ \A call \in Calls : \A rpc \in RpcOutcomes :
          LET document == call.write.document
              answer == authorized(call, rpc)
              entitled == OnChainAccess(document, call.wallet)
          IN  /\ ~OwnedBy(document, call.wallet)
              /\ document.id \in DOMAIN documents
              /\ documents[document.id].owner = document.owner
              /\ documents[document.id].documentHash = document.documentHash
              /\ answer.status \in {200, 403}
              /\ answer.status = 200 => entitled /\ answer.document = document
              /\ answer.status = 403 => answer.document = NotFound /\ answer.audit = NoAudit
              /\ ~entitled => answer.status = 403
              /\ (entitled /\ rpc = "ok") => answer.status = 200

\* C23 witness: a wallet that does not own the document was granted access on
\* chain and then lost it; its view while it had access is in the audit
\* trail, its next view awaits the contract and will be answered 403, and
\* the owner is served.
ViewedThenRevoked ==
    \E call \in Calls :
        LET document == call.write.document
            w == call.wallet
        IN  /\ document \in StoredDocuments
            /\ document.documentHash # NullHash
            /\ call.route = "document"
            /\ lastAccessCall[document.documentHash][AbiAddress(w)] = "revoke"
            /\ ~OnChainAccess(document, w)
            /\ Entries(w, "FILE_VIEW", document.id) # {}
            /\ authorized(call, "ok").status = 403
            /\ getVersions(document, w).write.op = "hasAccess"
            /\ getDocument(document, document.owner).status = 200
            /\ getDocument(Deleted(document), document.owner).status = 404

\* C24: when the RPC call throws, blockchainService.hasAccess answers false
\* for every wallet and document, and a read that awaits it, which is one of
\* a wallet that does not own the document, is answered 403 without the
\* document's data and without an audit entry, whatever the contract holds.
FailClosed ==
    /\ \A document \in StoredDocuments \cup {call.write.document : call \in Calls} :
          \A w \in Callers : ~serviceHasAccess(w, document.documentHash, "throws")
    /\ \A call \in Calls :
          LET answer == authorized(call, "throws")
          IN  /\ ~OwnedBy(call.write.document, call.wallet)
              /\ answer.status = 403
              /\ answer.document = NotFound
              /\ answer.audit = NoAudit

\* C24 witness: a wallet that does not own the document holds a grant on
\* chain and its read awaits the contract: it is served if the RPC answers
\* and answered 403 if the RPC call throws.
GrantedButRpcDown ==
    \E call \in Calls :
        LET document == call.write.document
            w == call.wallet
        IN  /\ ~OwnedBy(document, w)
            /\ document.documentHash # NullHash
            /\ _access[document.documentHash][AbiAddress(w)]
            /\ OnChainAccess(document, w)
            /\ authorized(call, "ok").status = 200
            /\ authorized(call, "ok").document = document
            /\ authorized(call, "throws").status = 403

\* C25: a document of the index has registeredOnChain set only if the
\* contract holds a registration of its documentHash made by its owner's
\* account, and a document no registerDocument transaction has confirmed is
\* a pending entry (registeredOnChain false).
RegisteredOnChainReflectsChain ==
    \A document \in StoredDocuments :
        document.registeredOnChain =>
            /\ document.documentHash # NullHash
            /\ _docs[document.documentHash].exists
            /\ _docs[document.documentHash].owner = AbiAddress(document.owner)

\* Every version flow of the document has run to completion: the owner's
\* account registered the uploaded CID, no operation of the index is in
\* flight, and every updateDocument transaction has had its confirm-version
\* and every confirm-version its updateDocument transaction.
FlowsCompleted(document) ==
    /\ document.documentHash # NullHash
    /\ _docs[document.documentHash].exists
    /\ _docs[document.documentHash].owner = AbiAddress(document.owner)
    /\ _versions[document.documentHash][1] = document.versions[1].ipfsHash
    /\ inflight = EmptyBag
    /\ \A cid \in HeldCids :
          Occurrences(cid, IndexUpdates(document)) = Occurrences(cid, ChainUpdates(document))

\* C26: once every version flow of a document registered on chain has run to
\* completion, the index's currentVersion is the contract's versionCount and
\* the index's ipfsHash is the contract's latest CID.
IndexMirrorsChain ==
    \A document \in StoredDocuments :
        FlowsCompleted(document) =>
            /\ document.currentVersion = getVersionCount(document.documentHash)
            /\ document.ipfsHash = _docs[document.documentHash].cid

\* The entries of an answer of GET /api/audits/my for a document under one
\* of the given actions.
Returned(answer, actions, documentId) ==
    {i \in DOMAIN answer :
        /\ answer[i].action \in actions
        /\ answer[i].documentId = documentId}

\* C27: once no operation of the index is in flight, every uploaded document
\* has one upload entry in its owner's audit trail and one version-update
\* entry per version confirmed after the first, and every answer of GET
\* /api/audits/my returns them while the trail is within its limit.
FullActivityTimeline ==
    \A document \in StoredDocuments : \A answer \in getMyAudits(document.owner) :
        (inflight = EmptyBag /\ Len(audits) <= AuditLimit) =>
            /\ Cardinality(Returned(answer, {"FILE_UPLOAD", "UPLOAD"}, document.id)) = 1
            /\ Cardinality(Returned(answer, {"VERSION_UPDATE", "UPDATE"}, document.id))
                   = Len(document.versions) - 1

\* The bodies of the requests that carry a file.
Uploads == Files \cup {NoFile}

\* C28: for a stored document and a wallet that is not its owner (compared
\* without letter case), POST /:id/confirm answers 403, and POST
\* /:id/prepare-version, /:id/confirm-version and /:id/update answer 403 to
\* a request that carries its file or newCid and 400 to one that does not;
\* none of them pins a file, returns a CID or a document or issues a save,
\* also when the document is soft-deleted; the owner's well-formed requests
\* go through (200, or the pin and then 200 or the save), and every pin and
\* save in flight was requested by the document's owner.
OwnerOnlyIndexWrites ==
    /\ \A p \in InFlight({"save"}) : OwnedBy(documents[p.write.id], p.wallet)
    /\ \A p \in InFlight({"addFile"}) :
          /\ OwnedBy(p.write.document, p.wallet)
          /\ OwnedBy(documents[p.write.document.id], p.wallet)
    /\ \A document \in StoredDocuments : \A w \in Callers :
          LET answers(d) ==
                  {confirm(d, w, tx) : tx \in TxHashes}
                  \cup {prepareVersion(d, w, f) : f \in Uploads}
                  \cup {confirmVersion(d, w, c, tx) :
                           c \in Cids \cup PreparedCids, tx \in TxHashes}
                  \cup {update(d, w, f) : f \in Uploads}
          IN  IF OwnedBy(document, w)
              THEN /\ \A tx \in TxHashes : confirm(document, w, tx).status = 200
                   /\ \A f \in Files : \A ipfs \in IpfsOutcomes : \A now \in DateNow :
                         /\ prepareVersion(document, w, f).write = Pinning(document, f)
                         /\ update(document, w, f).write = Pinning(document, f)
                         /\ pinned(Awaiting(prepareVersion(document, w, f)), ipfs, now).status = 200
                         /\ pinned(Awaiting(prepareVersion(document, w, f)), ipfs, now).cid
                                = addFile(f, ipfs, now)
                         /\ pinned(Awaiting(update(document, w, f)), ipfs, now).write.op = "save"
                   /\ \A c \in PreparedCids : \A tx \in TxHashes :
                         confirmVersion(document, w, c, tx).write.op = "save"
              ELSE /\ \A answer \in answers(document) \cup answers(Deleted(document)) :
                         /\ answer.status \in {400, 403, 404}
                         /\ answer.write = NoSave
                         /\ answer.cid = ""
                         /\ answer.document = NotFound
                         /\ answer.audit = NoAudit
                   /\ \A tx \in TxHashes : confirm(document, w, tx).status = 403
                   /\ \A f \in Uploads :
                         /\ prepareVersion(document, w, f).status
                                = IF f = NoFile THEN 400 ELSE 403
                         /\ update(document, w, f).status
                                = IF f = NoFile THEN 400 ELSE 403
                   /\ \A c \in Cids \cup PreparedCids : \A tx \in TxHashes :
                         confirmVersion(document, w, c, tx).status = IF c = "" THEN 400 ELSE 403

\* C28 as stated: every request of a wallet that is not the owner is
\* answered 403.
ForbiddenToEveryOtherWallet ==
    \A document \in StoredDocuments : \A w \in Callers :
        ~OwnedBy(document, w) =>
            /\ \A tx \in TxHashes : confirm(document, w, tx).status = 403
            /\ \A f \in Uploads : prepareVersion(document, w, f).status = 403
            /\ \A c \in Cids : \A tx \in TxHashes :
                  confirmVersion(document, w, c, tx).status = 403

\* C28 witness: the owner has confirmed the registration and a second
\* version and has another save in flight; the other wallet's confirm,
\* prepare-version and confirm-version are answered 403, and its
\* prepare-version without a file 400.
OwnerActedOtherRefused ==
    \E document \in StoredDocuments : \E w \in Wallets :
        /\ ~OwnedBy(document, w)
        /\ document.registeredOnChain
        /\ document.currentVersion = 2
        /\ Len(document.versions) = 2
        /\ \E p \in InFlight({"save"}) : OwnedBy(document, p.wallet)
        /\ confirm(document, w, "0xtx").status = 403
        /\ prepareVersion(document, w, "fileA").status = 403
        /\ confirmVersion(document, w, "QmA", "0xtx").status = 403
        /\ prepareVersion(document, w, NoFile).status = 400
        /\ confirmVersion(document, w, "", "0xtx").status = 400

\* C29: in every state of the index, also with version saves in flight, the
\* versions of a document are numbered 1..currentVersion in order, each
\* number once, and ipfsHash is the ipfsHash of the last entry.
ConsecutiveVersionHistory ==
    \A document \in StoredDocuments :
        /\ Len(document.versions) = document.currentVersion
        /\ \A i \in DOMAIN document.versions : document.versions[i].version = i
        /\ document.ipfsHash = document.versions[Len(document.versions)].ipfsHash

====
